---------------------------- MODULE Spec2Model ----------------------------
(***************************************************************************)
(* FederatedOpenWallet (fedow_core): the transaction engine of             *)
(* serializers.py (TransactionW2W), its classifier (get_action), the       *)
(* wallet-fusion path of WalletCreateSerializer and the hash-chained       *)
(* ledger they write to.                                                   *)
(*                                                                         *)
(* The Django models the serializers call (Transaction, Card, Place, the   *)
(* later Wallet/Asset/Token) are not part of the source tree; what the     *)
(* serializers need from them is modelled from the specification and is    *)
(* marked as such in MODEL_MAP.json.                                       *)
(***************************************************************************)
EXTENDS Integers, Sequences, FiniteSets, TLC

(***************************************************************************)
(* Bounds of the model.                                                    *)
(***************************************************************************)
\* largest amount a request carries
MaxAmount == 2
\* requests handled in one behaviour
MaxOps == 2
\* opening balance of the user wallet WU in LOCAL
InitUser == 2
\* opening balance of the ephemeral wallet WE in LOCAL and in EXT
InitEph == 1

(***************************************************************************)
(* The federation the requests are played against: two places, their       *)
(* wallets, one registered user, one unclaimed card with an ephemeral      *)
(* wallet, the primary (Stripe) wallet and five assets.                    *)
(***************************************************************************)
NoPlace == "NoPlace"
NoCard == "NoCard"
NoUser == "NoUser"
NoWallet == "NoWallet"

Places == {"P", "P2"}
Users == {"U1", "U2"}
Cards == {"C1", "C2", "C3", "C4", "C5"}
Wallets == {"WP", "WP2", "WU", "WE", "WS", "WN"}
Assets == {"LOCAL", "SUB", "BDG", "EXT", "FOREIGN"}
Workers == {"w1", "w2"}

\* Transaction.TYPE_ACTION, as named by the serializers
Actions == {"CREATION", "REFILL", "SALE", "SUBSCRIBE", "BADGE", "FUSION",
            "TRANSFER", "REFUND", "VOID"}
\* the action field of a request is optional (allow_null)
Hints == Actions \cup {"NONE"}

\* place.wallet
PlaceWallet(p) == IF p = "P" THEN "WP" ELSE IF p = "P2" THEN "WP2" ELSE NoWallet

\* place.primary_cards.all()
PrimaryCards(p) == IF p = "P" THEN {"C1"} ELSE IF p = "P2" THEN {"C5"} ELSE {}

\* place.accepted_assets()
AcceptedAssets(p) ==
    IF p = "P" THEN {"LOCAL", "SUB", "BDG", "EXT"}
    ELSE IF p = "P2" THEN {"FOREIGN", "EXT"} ELSE {}

\* asset.category
Category(a) ==
    CASE a = "LOCAL" -> "TLF"
      [] a = "FOREIGN" -> "TLF"
      [] a = "SUB" -> "SUBSCRIPTION"
      [] a = "BDG" -> "BADGE"
      [] a = "EXT" -> "STRIPE_FED_FIAT"

\* asset.wallet_origin
WalletOrigin(a) ==
    CASE a \in {"LOCAL", "SUB", "BDG"} -> "WP"
      [] a = "FOREIGN" -> "WP2"
      [] a = "EXT" -> "WS"

\* asset.is_stripe_primary()
IsStripePrimary(a) == a = "EXT"

\* wallet.is_primary()
IsPrimary(w) == w = "WS"

\* card.origin.place
CardOrigin(c) == IF c \in {"C1", "C2", "C3"} THEN "P" ELSE "P2"

\* card.get_authority_delegation(): the place wallets the card's wallet lets
\* debit it, those of the federation of the place that issued the card
AuthorityDelegation(c) == {PlaceWallet(CardOrigin(c))}

VARIABLES
    tokens,      \* tokens[w][a]: the values of the Token rows of (wallet w, asset a)
    ledger,      \* the Transaction rows, oldest first
    cardUser,    \* card.user
    cardEph,     \* card.wallet_ephemere
    userWallet,  \* user.wallet, NoWallet while the user does not exist
    wk,          \* each worker's request in progress and its local variables
    nops,        \* requests started so far
    cq           \* a classifier query and its answer

vars == <<tokens, ledger, cardUser, cardEph, userWallet, wk, nops, cq>>


(***************************************************************************)
(* Relations of the models that change with the card and user links.       *)
(***************************************************************************)
\* wallet.user: the user that owns the wallet
WalletUser(w) ==
    IF \E u \in Users : userWallet[u] = w
    THEN CHOOSE u \in Users : userWallet[u] = w
    ELSE NoUser

\* wallet.card_ephemere: the card whose ephemeral wallet this is
CardEphemere(w) ==
    IF \E c \in Cards : cardEph[c] = w
    THEN CHOOSE c \in Cards : cardEph[c] = w
    ELSE NoCard

\* card.get_wallet(): the user's wallet, else the ephemeral wallet
GetWallet(c) ==
    IF cardUser[c] # NoUser THEN userWallet[cardUser[c]] ELSE cardEph[c]

\* Wallet.objects.all(): the wallets that exist
ExistingWallets ==
    {w \in Wallets : w # "WN" \/ (\E u \in Users : userWallet[u] = w)}

(***************************************************************************)
(* The classifier, TransactionW2W.get_action, and the part of validate     *)
(* that runs before the ledger is read.  A request rq carries the fields   *)
(* of the serializer: sender, receiver, asset, amount, action (the hint),  *)
(* checkout (whether checkout_stripe is attached), primary_card,           *)
(* user_card and place (request.place).                                    *)
(***************************************************************************)
Act(a) == [kind |-> "action", value |-> a]
Reject(m) == [kind |-> "reject", value |-> m]
Crash(m) == [kind |-> "error", value |-> m]

\* the four conditions of a Stripe refill (lines 599-602 and 687-690)
IsStripeRefill(rq) ==
    /\ rq.action = "REFILL"
    /\ rq.checkout
    /\ IsPrimary(rq.sender)
    /\ IsStripePrimary(rq.asset)

\* a deviation: the self-transfer looked at before the category of the asset
PlaceSenderActionSelfFirst(rq, place) ==
    IF rq.sender = rq.receiver
    THEN IF WalletOrigin(rq.asset) = PlaceWallet(place)
         THEN Reject("no longuer implemented for REFILL. Send user wallet instead")
         ELSE Reject("Unauthorized wallet_origin")
    ELSE IF Category(rq.asset) = "SUBSCRIPTION" THEN Act("SUBSCRIBE")
    ELSE IF Category(rq.asset) = "BADGE" THEN Act("BADGE")
    ELSE IF rq.primary_card = NoCard \/ rq.user_card = NoCard
    THEN Reject("Primary card and user card are required for refill transaction")
    ELSE Act("REFILL")

\* a deviation: a self-transfer refused only for an asset of this place
PlaceSenderActionOriginOnly(rq, place) ==
    IF Category(rq.asset) = "SUBSCRIPTION" THEN Act("SUBSCRIBE")
    ELSE IF Category(rq.asset) = "BADGE" THEN Act("BADGE")
    ELSE IF rq.sender = rq.receiver /\ WalletOrigin(rq.asset) = PlaceWallet(place)
    THEN Reject("no longuer implemented for REFILL. Send user wallet instead")
    ELSE IF rq.primary_card = NoCard \/ rq.user_card = NoCard
    THEN Reject("Primary card and user card are required for refill transaction")
    ELSE Act("REFILL")

\* a deviation: a refill asks for a primary card of the place and an asset the
\* place issued
PlaceSenderActionChecked(rq, place) ==
    IF Category(rq.asset) = "SUBSCRIPTION" THEN Act("SUBSCRIBE")
    ELSE IF Category(rq.asset) = "BADGE" THEN Act("BADGE")
    ELSE IF rq.sender = rq.receiver
    THEN IF WalletOrigin(rq.asset) = PlaceWallet(place)
         THEN Reject("no longuer implemented for REFILL. Send user wallet instead")
         ELSE Reject("Unauthorized wallet_origin")
    ELSE IF rq.primary_card = NoCard \/ rq.user_card = NoCard
    THEN Reject("Primary card and user card are required for refill transaction")
    ELSE IF rq.primary_card \notin PrimaryCards(place)
    THEN Reject("Primary card must be in place primary cards")
    ELSE IF WalletOrigin(rq.asset) # PlaceWallet(place)
    THEN Reject("Unauthorized wallet_origin")
    ELSE Act("REFILL")

\* the place-as-sender branch of get_action
PlaceSenderAction(rq, place) ==
    IF Category(rq.asset) = "SUBSCRIPTION" THEN Act("SUBSCRIBE")
    ELSE IF Category(rq.asset) = "BADGE" THEN Act("BADGE")
    ELSE IF rq.sender = rq.receiver
    THEN IF WalletOrigin(rq.asset) = PlaceWallet(place)
         THEN Reject("no longuer implemented for REFILL. Send user wallet instead")
         ELSE Reject("Unauthorized wallet_origin")
    ELSE IF rq.primary_card = NoCard \/ rq.user_card = NoCard
    THEN Reject("Primary card and user card are required for refill transaction")
    ELSE Act("REFILL")

\* a deviation: the authority delegation of the user card not looked at
PlaceReceiverActionNoDelegation(rq, place) ==
    IF rq.primary_card = NoCard
    THEN Reject("Primary card is required for sale transaction")
    ELSE IF rq.primary_card \notin PrimaryCards(place)
    THEN Reject("Primary card must be in place primary cards")
    ELSE IF rq.user_card = NoCard
    THEN Reject("User card is required for sale transaction")
    ELSE IF rq.asset \notin AcceptedAssets(place)
    THEN Reject("Asset not accepted")
    ELSE Act("SALE")

\* the place-as-receiver branch of get_action
PlaceReceiverAction(rq, place) ==
    IF rq.primary_card = NoCard
    THEN Reject("Primary card is required for sale transaction")
    ELSE IF rq.primary_card \notin PrimaryCards(place)
    THEN Reject("Primary card must be in place primary cards")
    ELSE IF rq.user_card = NoCard
    THEN Reject("User card is required for sale transaction")
    ELSE IF rq.receiver \notin AuthorityDelegation(rq.user_card)
    THEN Reject("Unauthorized")
    ELSE IF rq.asset \notin AcceptedAssets(place)
    THEN Reject("Asset not accepted")
    ELSE Act("SALE")

\* a deviation: the place that issued the card not compared with the place
FusionActionAnyPlace(rq, place) ==
    IF /\ WalletUser(rq.sender) = NoUser
       /\ CardEphemere(rq.sender) # NoCard
       /\ WalletUser(rq.receiver) # NoUser
    THEN Act("FUSION")
    ELSE Reject("No action authorized")

\* the FUSION branch of get_action
FusionAction(rq, place) ==
    IF /\ WalletUser(rq.sender) = NoUser
       /\ CardEphemere(rq.sender) # NoCard
       /\ WalletUser(rq.receiver) # NoUser
       /\ CardOrigin(CardEphemere(rq.sender)) = place
    THEN Act("FUSION")
    ELSE Reject("No action authorized")

\* a deviation: the external refill looked at after the rules of the place
GetActionPlaceFirst(rq, place) ==
    IF PlaceWallet(place) = rq.sender THEN PlaceSenderAction(rq, place)
    ELSE IF PlaceWallet(place) = rq.receiver THEN PlaceReceiverAction(rq, place)
    ELSE IF IsStripeRefill(rq) THEN Act("REFILL")
    ELSE IF rq.action = "FUSION" THEN FusionAction(rq, place)
    ELSE Reject("No action authorized")

\* a deviation: the initial value of action returned when no rule applies
GetActionDefault(rq, place) ==
    IF IsStripeRefill(rq) THEN Act("REFILL")
    ELSE IF PlaceWallet(place) = rq.sender THEN PlaceSenderAction(rq, place)
    ELSE IF PlaceWallet(place) = rq.receiver THEN PlaceReceiverAction(rq, place)
    ELSE IF rq.action = "FUSION" THEN FusionAction(rq, place)
    ELSE Act("NONE")

\* a deviation: a sale between two wallets that are not the place's
GetActionSaleHint(rq, place) ==
    IF IsStripeRefill(rq) THEN Act("REFILL")
    ELSE IF PlaceWallet(place) = rq.sender THEN PlaceSenderAction(rq, place)
    ELSE IF PlaceWallet(place) = rq.receiver THEN PlaceReceiverAction(rq, place)
    ELSE IF rq.action = "FUSION" THEN FusionAction(rq, place)
    ELSE IF rq.action = "SALE" THEN Act("SALE")
    ELSE Reject("No action authorized")

\* a deviation: the action TRANSFER of a request taken at its word
GetActionHinted(rq, place) ==
    IF rq.action = "TRANSFER" THEN Act("TRANSFER")
    ELSE IF IsStripeRefill(rq) THEN Act("REFILL")
    ELSE IF PlaceWallet(place) = rq.sender THEN PlaceSenderAction(rq, place)
    ELSE IF PlaceWallet(place) = rq.receiver THEN PlaceReceiverAction(rq, place)
    ELSE IF rq.action = "FUSION" THEN FusionAction(rq, place)
    ELSE Reject("No action authorized")

\* get_action, with self.place = place
GetAction(rq, place) ==
    IF IsStripeRefill(rq) THEN Act("REFILL")
    ELSE IF PlaceWallet(place) = rq.sender THEN PlaceSenderAction(rq, place)
    ELSE IF PlaceWallet(place) = rq.receiver THEN PlaceReceiverAction(rq, place)
    ELSE IF rq.action = "FUSION" THEN FusionAction(rq, place)
    ELSE Reject("No action authorized")

\* a deviation: the amount zero let through
ValidateAmountZero(value) == value >= 0

\* validate_amount
ValidateAmount(value) == value > 0

\* self.place: request.place, or for a Stripe refill sent without a place the
\* place that issued the user card
SelfPlace(rq) ==
    IF rq.place # NoPlace THEN rq.place
    ELSE IF IsStripeRefill(rq) /\ rq.user_card # NoCard
    THEN CardOrigin(rq.user_card)
    ELSE NoPlace

\* the check that the place is the sender or the receiver (lines 706-713)
PlaceIsParty(rq, place, action) ==
    \/ PlaceWallet(place) = rq.sender
    \/ PlaceWallet(place) = rq.receiver
    \/ IsStripePrimary(rq.asset)
    \/ action = "FUSION"

\* validate, up to the first read of a token: the amount, the place, the
\* classification and the check of the parties
PreValidate(rq) ==
    IF ~ValidateAmount(rq.amount) THEN Reject("Amount must be positive")
    ELSE IF rq.place = NoPlace /\ ~IsStripeRefill(rq) THEN Reject("Place not found")
    ELSE IF rq.place = NoPlace /\ rq.user_card = NoCard
    THEN Crash("AttributeError")
    ELSE LET place == SelfPlace(rq)
             got == GetAction(rq, place)
         IN  IF got.kind # "action" THEN got
             ELSE IF ~PlaceIsParty(rq, place, got.value) THEN Reject("Unauthorized")
             ELSE got

(***************************************************************************)
(* Tokens.  There is no uniqueness constraint on (wallet, asset) in the    *)
(* Token model, so a pair holds a sequence of rows.                        *)
(***************************************************************************)
RECURSIVE SumSeq(_)
SumSeq(q) == IF q = <<>> THEN 0 ELSE Head(q) + SumSeq(Tail(q))

RECURSIVE SumOver(_, _)
SumOver(f, S) ==
    IF S = {} THEN 0
    ELSE LET x == CHOOSE y \in S : TRUE IN f[x] + SumOver(f, S \ {x})

\* the balance of a wallet in an asset, over all of the pair's rows
BalanceIn(tok, w, a) == SumSeq(tok[w][a])
Balance(w, a) == BalanceIn(tokens, w, a)

\* the total supply of an asset
SupplyIn(tok, a) == SumOver([w \in Wallets |-> BalanceIn(tok, w, a)], Wallets)
Supply(a) == SupplyIn(tokens, a)

\* Token.objects.get(wallet=w, asset=a)
TokenGet(tok, w, a) ==
    IF Len(tok[w][a]) = 0 THEN Crash("DoesNotExist")
    ELSE IF Len(tok[w][a]) > 1 THEN Crash("MultipleObjectsReturned")
    ELSE [kind |-> "token", value |-> tok[w][a][1]]

\* Token.objects.create(wallet=w, asset=a, value=0)
TokenCreate(tok, w, a) == [tok EXCEPT ![w][a] = Append(@, 0)]

\* the token of the pair gains amt (its first row; the row is made on demand)
Credit(tok, w, a, amt) ==
    [tok EXCEPT ![w][a] = IF Len(@) = 0 THEN <<amt>> ELSE [@ EXCEPT ![1] = @ + amt]]

Debit(tok, w, a, amt) == Credit(tok, w, a, 0 - amt)

(***************************************************************************)
(* The ledger: Transaction.objects.create and Transaction.verify_hash.     *)
(***************************************************************************)
Genesis == <<"genesis">>

\* the content hash of a transaction, taken as collision free: the digest
\* stands for the tuple that was hashed
HashOf(prev, action, s, r, a, amt, dt) == <<dt, amt, a, r, s, action, prev>>

\* the hash of the transaction a row links to
PrevHash(led, row) ==
    IF row.previous = 0 \/ row.previous > Len(led) THEN Genesis
    ELSE led[row.previous].hash

\* a deviation: the amount left out of the hashed fields
RowHashNoAmount(led, row) ==
    HashOf(PrevHash(led, row), row.action, row.sender, row.receiver,
           row.asset, 0, row.datetime)

\* the hash recomputed from the stored fields of a row
RowHash(led, row) ==
    HashOf(PrevHash(led, row), row.action, row.sender, row.receiver,
           row.asset, row.amount, row.datetime)

\* transaction.verify_hash()
VerifyHash(led, row) == row.hash = RowHash(led, row)

\* the row Transaction.objects.create stores: linked to the last transaction
\* and hashed
NewRow(led, action, s, r, a, amt) ==
    LET bare == [action |-> action, sender |-> s, receiver |-> r, asset |-> a,
                 amount |-> amt, datetime |-> Len(led) + 1,
                 previous |-> Len(led), hash |-> Genesis]
    IN  [bare EXCEPT !.hash = RowHash(led, bare)]

\* the balance effect of a transaction: a CREATION mints to its wallet, every
\* other action debits the sender and credits the receiver
ApplyTx(tok, action, s, r, a, amt) ==
    IF action = "CREATION" THEN Credit(tok, r, a, amt)
    ELSE Credit(Debit(tok, s, a, amt), r, a, amt)

\* Transaction.objects.create(...): the balances and the row, together
TransactionCreate(st, action, s, r, a, amt) ==
    [tokens |-> ApplyTx(st.tokens, action, s, r, a, amt),
     ledger |-> Append(st.ledger, NewRow(st.ledger, action, s, r, a, amt))]

(***************************************************************************)
(* The opening state: the places' own tokens exist, WU was refilled with   *)
(* InitUser LOCAL, and the unclaimed card C3 was refilled with InitEph     *)
(* LOCAL at the place and InitEph EXT through Stripe.                      *)
(***************************************************************************)
NoTokens == [w \in Wallets |-> [a \in Assets |-> <<>>]]

OpeningTokens ==
    [NoTokens EXCEPT !["WP"]["LOCAL"] = <<0>>, !["WP"]["SUB"] = <<0>>,
                     !["WP"]["BDG"] = <<0>>, !["WS"]["EXT"] = <<0>>]

\* a refill as validate records it: the CREATION, then the REFILL
Refilled(st, s, r, a, amt) ==
    TransactionCreate(TransactionCreate(st, "CREATION", s, s, a, amt),
                      "REFILL", s, r, a, amt)

OpeningState ==
    Refilled(Refilled(Refilled([tokens |-> OpeningTokens, ledger |-> <<>>],
                               "WP", "WU", "LOCAL", InitUser),
                      "WP", "WE", "LOCAL", InitEph),
             "WS", "WE", "EXT", InitEph)

(***************************************************************************)
(* The workers.  A worker handles one request at a time; each step is one  *)
(* round of reads or one write to the store, and the steps of different    *)
(* workers interleave: nothing in validate locks a row or opens a database *)
(* transaction.                                                            *)
(***************************************************************************)
NoResult == [kind |-> "none", value |-> "none"]
Ok(a) == [kind |-> "ok", value |-> a]

\* base is not a variable of the code: it remembers the store as a fusion found
\* it, for the statements about what the fusion did
Idle ==
    [pc |-> "idle", op |-> "none", sender |-> NoWallet, receiver |-> NoWallet,
     asset |-> "none", amount |-> 0, action |-> "NONE", seen |-> 0,
     out |-> NoResult, place |-> NoPlace, card |-> NoCard, user |-> NoUser,
     eph |-> NoWallet, target |-> NoWallet, todo |-> <<>>, base |-> <<>>]

\* the requests the workers receive
SubmitSenders == {"WP", "WU", "WE"}
SubmitReceivers == {"WP", "WU"}
SubmitAssets == {"LOCAL", "SUB"}
SubmitAmounts == 0 .. MaxAmount
SubmitHints == {"NONE", "FUSION"}
SubmitPrimaryCards == {NoCard, "C1"}
SubmitUserCards == {NoCard, "C2"}
SubmitPlaces == {"P"}

SubmitRequests ==
    [sender : SubmitSenders, receiver : SubmitReceivers, asset : SubmitAssets,
     amount : SubmitAmounts, action : SubmitHints, checkout : {FALSE},
     primary_card : SubmitPrimaryCards, user_card : SubmitUserCards,
     place : SubmitPlaces]

\* a request goes to the first worker that is free (the workers are alike)
WorkerOrder == <<"w1", "w2">>

Free(w) ==
    /\ wk[w].pc = "idle"
    /\ \A i, j \in 1 .. Len(WorkerOrder) :
         (i < j /\ WorkerOrder[j] = w) => wk[WorkerOrder[i]].pc # "idle"

\* a deviation: the asset is created before every transaction
AfterTokensAlways(action) == "mint"

\* a deviation: no asset is created before a refill
AfterTokensNever(action) == "record"

\* where validate goes once both tokens are there (line 737)
AfterTokens(action) == IF action = "REFILL" THEN "mint" ELSE "record"

Go(pc, action, seen) == [kind |-> "go", value |-> pc, action |-> action, seen |-> seen]

\* a deviation: a refill goes on without a token of the sender
CheckTokensRefillFirst(rq, action) ==
    LET ts == TokenGet(tokens, rq.sender, rq.asset)
        tr == TokenGet(tokens, rq.receiver, rq.asset)
    IN  IF ts = Crash("DoesNotExist") /\ action # "REFILL"
        THEN Reject("Sender token does not exist")
        ELSE IF ts = Crash("DoesNotExist")
        THEN Go(IF tr = Crash("DoesNotExist") THEN "create_recv" ELSE AfterTokens(action),
                action, 0)
        ELSE IF ts.kind = "error" THEN ts
        ELSE IF ts.value < rq.amount /\ action \in {"SALE", "TRANSFER"}
        THEN Reject("Not enough token on sender wallet")
        ELSE IF tr = Crash("DoesNotExist") THEN Go("create_recv", action, ts.value)
        ELSE IF tr.kind = "error" THEN tr
        ELSE Go(AfterTokens(action), action, ts.value)

\* a deviation: the value of the sender token compared for TRANSFER only
CheckTokensTransferOnly(rq, action) ==
    LET ts == TokenGet(tokens, rq.sender, rq.asset)
        tr == TokenGet(tokens, rq.receiver, rq.asset)
    IN  IF ts = Crash("DoesNotExist") THEN Reject("Sender token does not exist")
        ELSE IF ts.kind = "error" THEN ts
        ELSE IF ts.value < rq.amount /\ action \in {"TRANSFER"}
        THEN Reject("Not enough token on sender wallet")
        ELSE IF tr = Crash("DoesNotExist") THEN Go("create_recv", action, ts.value)
        ELSE IF tr.kind = "error" THEN tr
        ELSE Go(AfterTokens(action), action, ts.value)

\* the reads of the sender token and of the receiver token (lines 715-731),
\* with the balance check
CheckTokens(rq, action) ==
    LET ts == TokenGet(tokens, rq.sender, rq.asset)
        tr == TokenGet(tokens, rq.receiver, rq.asset)
    IN  IF ts = Crash("DoesNotExist") THEN Reject("Sender token does not exist")
        ELSE IF ts.kind = "error" THEN ts
        ELSE IF ts.value < rq.amount /\ action \in {"SALE", "TRANSFER"}
        THEN Reject("Not enough token on sender wallet")
        ELSE IF tr = Crash("DoesNotExist") THEN Go("create_recv", action, ts.value)
        ELSE IF tr.kind = "error" THEN tr
        ELSE Go(AfterTokens(action), action, ts.value)

\* validate, up to its first write
Validate(rq) ==
    LET pre == PreValidate(rq)
    IN  IF pre.kind # "action" THEN pre ELSE CheckTokens(rq, pre.value)

\* a deviation: the action of the transaction taken from the request
StartedHint(me, op, rq, res) ==
    IF res.kind = "go"
    THEN [me EXCEPT !.pc = res.value, !.op = op, !.sender = rq.sender,
                    !.receiver = rq.receiver, !.asset = rq.asset,
                    !.amount = rq.amount, !.action = rq.action,
                    !.seen = res.seen, !.out = NoResult]
    ELSE [Idle EXCEPT !.op = op, !.out = res]

\* the worker once validate has passed its reads, or has raised
Started(me, op, rq, res) ==
    IF res.kind = "go"
    THEN [me EXCEPT !.pc = res.value, !.op = op, !.sender = rq.sender,
                    !.receiver = rq.receiver, !.asset = rq.asset,
                    !.amount = rq.amount, !.action = res.action,
                    !.seen = res.seen, !.out = NoResult]
    ELSE [Idle EXCEPT !.op = op, !.out = res]

\* a place posts a transaction: TransactionW2W(data=rq).is_valid()
SubmitBegin(w) ==
    /\ Free(w)
    /\ nops < MaxOps
    /\ \E rq \in SubmitRequests :
         wk' = [wk EXCEPT ![w] = Started(Idle, "submit", rq, Validate(rq))]
    /\ nops' = nops + 1
    /\ UNCHANGED <<tokens, ledger, cardUser, cardEph, userWallet, cq>>

\* Token.objects.create(wallet=self.receiver, asset=self.asset, value=0)
CreateReceiver(w) ==
    /\ wk[w].pc = "create_recv"
    /\ tokens' = TokenCreate(tokens, wk[w].receiver, wk[w].asset)
    /\ wk' = [wk EXCEPT ![w].pc = AfterTokens(wk[w].action)]
    /\ UNCHANGED <<ledger, cardUser, cardEph, userWallet, nops, cq>>

\* a deviation: the CREATION made out to the receiver of the refill
CreationOfReceiver(st, me) ==
    TransactionCreate(st, "CREATION", me.sender, me.receiver, me.asset, me.amount)

\* the CREATION a refill records first (lines 736-757)
CreationOf(st, me) ==
    TransactionCreate(st, "CREATION", me.sender, me.sender, me.asset, me.amount)

Mint(w) ==
    /\ wk[w].pc = "mint"
    /\ LET st == CreationOf([tokens |-> tokens, ledger |-> ledger], wk[w])
           row == st.ledger[Len(st.ledger)]
       IN  /\ tokens' = st.tokens
           /\ ledger' = st.ledger
           /\ wk' = [wk EXCEPT ![w] =
                       IF VerifyHash(st.ledger, row) THEN [@ EXCEPT !.pc = "record"]
                       ELSE [Idle EXCEPT !.op = @.op,
                                         !.out = Reject("Transaction hash is not valid")]]
    /\ UNCHANGED <<cardUser, cardEph, userWallet, nops, cq>>

\* a deviation: the receiver of the transaction taken from the sender, as in
\* the dict of the CREATION
RecordOfSelf(st, me) ==
    TransactionCreate(st, me.action, me.sender, me.sender, me.asset, me.amount)

\* the transaction itself (lines 759-773)
RecordOf(st, me) ==
    TransactionCreate(st, me.action, me.sender, me.receiver, me.asset, me.amount)

\* the worker after its transaction is recorded: a posted transaction is
\* answered, a fusion goes on with the next token
Recorded(me) ==
    IF me.op = "wallet_create" THEN [me EXCEPT !.pc = "fuse"]
    ELSE [me EXCEPT !.pc = "idle", !.out = Ok(me.action)]

Record(w) ==
    /\ wk[w].pc = "record"
    /\ LET st == RecordOf([tokens |-> tokens, ledger |-> ledger], wk[w])
           row == st.ledger[Len(st.ledger)]
       IN  /\ tokens' = st.tokens
           /\ ledger' = st.ledger
           /\ wk' = [wk EXCEPT ![w] =
                       IF VerifyHash(st.ledger, row) THEN Recorded(@)
                       ELSE [Idle EXCEPT !.op = @.op,
                                         !.out = Reject("Transaction hash is not valid")]]
    /\ UNCHANGED <<cardUser, cardEph, userWallet, nops, cq>>

(***************************************************************************)
(* WalletCreateSerializer.validate: an email, and optionally a card, are   *)
(* linked; a card with an ephemeral wallet claimed by an existing user is  *)
(* fused into the user's wallet.                                           *)
(***************************************************************************)
WalletCreateEmails == Users
WalletCreateCards == {NoCard, "C2", "C3", "C4"}
WalletCreatePlaces == Places

\* the order in which the rows of a wallet are listed
AssetOrder == <<"LOCAL", "SUB", "BDG", "EXT", "FOREIGN">>

RECURSIVE PairUp(_, _)
PairUp(a, q) == IF q = <<>> THEN <<>> ELSE <<<<a, Head(q)>>>> \o PairUp(a, Tail(q))

Positive(v) == v > 0

RECURSIVE PositiveFrom(_, _, _)
PositiveFrom(tok, wal, i) ==
    IF i > Len(AssetOrder) THEN <<>>
    ELSE PairUp(AssetOrder[i], SelectSeq(tok[wal][AssetOrder[i]], Positive))
         \o PositiveFrom(tok, wal, i + 1)

\* wallet.tokens.filter(value__gt=0), as <<asset, value>> pairs
PositiveTokens(tok, wal) == PositiveFrom(tok, wal, 1)

\* get_or_create_user(email): the wallet of a user made without one
NewWallet(u) == "WN"

\* a deviation: the adopted wallet left on the card
WalletCreateLinksKeepEph(u, c) ==
    LET exists == userWallet[u] # NoWallet
        same == [cardUser |-> cardUser, cardEph |-> cardEph,
                 userWallet |-> userWallet, out |-> Ok("wallet"), fuse |-> FALSE]
    IN  IF c = NoCard /\ ~exists
        THEN [same EXCEPT !.userWallet[u] = NewWallet(u)]
        ELSE IF c # NoCard /\ ~exists
        THEN IF cardUser[c] = NoUser /\ cardEph[c] = NoWallet
             THEN [same EXCEPT !.userWallet[u] = NewWallet(u), !.cardUser[c] = u]
             ELSE IF cardUser[c] = NoUser
             THEN [same EXCEPT !.userWallet[u] = cardEph[c], !.cardUser[c] = u]
             ELSE [same EXCEPT !.out = Reject("Card already linked to another user")]
        ELSE IF c # NoCard
        THEN IF cardUser[c] = NoUser /\ cardEph[c] = NoWallet
             THEN [same EXCEPT !.cardUser[c] = u]
             ELSE IF cardUser[c] = NoUser
             THEN [same EXCEPT !.fuse = TRUE]
             ELSE IF cardUser[c] = u THEN same
             ELSE [same EXCEPT !.out = Reject("Card already linked to another user")]
        ELSE [same EXCEPT !.out = Reject("User not found ?")]

\* a deviation: a card of another user is handed to the user of the request
WalletCreateLinksTaken(u, c) ==
    LET exists == userWallet[u] # NoWallet
        same == [cardUser |-> cardUser, cardEph |-> cardEph,
                 userWallet |-> userWallet, out |-> Ok("wallet"), fuse |-> FALSE]
    IN  IF c = NoCard /\ ~exists
        THEN [same EXCEPT !.userWallet[u] = NewWallet(u)]
        ELSE IF c # NoCard /\ ~exists
        THEN IF cardUser[c] = NoUser /\ cardEph[c] = NoWallet
             THEN [same EXCEPT !.userWallet[u] = NewWallet(u), !.cardUser[c] = u]
             ELSE IF cardUser[c] = NoUser
             THEN [same EXCEPT !.userWallet[u] = cardEph[c], !.cardUser[c] = u,
                               !.cardEph[c] = NoWallet]
             ELSE [same EXCEPT !.out = Reject("Card already linked to another user")]
        ELSE IF c # NoCard
        THEN IF cardUser[c] = NoUser /\ cardEph[c] = NoWallet
             THEN [same EXCEPT !.cardUser[c] = u]
             ELSE IF cardUser[c] = NoUser
             THEN [same EXCEPT !.fuse = TRUE]
             ELSE [same EXCEPT !.cardUser[c] = u]
        ELSE [same EXCEPT !.out = Reject("User not found ?")]

\* what validate does to the links when no fusion is needed: the new links and
\* the answer; fuse is set when the fusion loop has to run instead
WalletCreateLinks(u, c) ==
    LET exists == userWallet[u] # NoWallet
        same == [cardUser |-> cardUser, cardEph |-> cardEph,
                 userWallet |-> userWallet, out |-> Ok("wallet"), fuse |-> FALSE]
    IN  IF c = NoCard /\ ~exists
        THEN [same EXCEPT !.userWallet[u] = NewWallet(u)]
        ELSE IF c # NoCard /\ ~exists
        THEN IF cardUser[c] = NoUser /\ cardEph[c] = NoWallet
             THEN [same EXCEPT !.userWallet[u] = NewWallet(u), !.cardUser[c] = u]
             ELSE IF cardUser[c] = NoUser
             THEN [same EXCEPT !.userWallet[u] = cardEph[c], !.cardUser[c] = u,
                               !.cardEph[c] = NoWallet]
             ELSE [same EXCEPT !.out = Reject("Card already linked to another user")]
        ELSE IF c # NoCard
        THEN IF cardUser[c] = NoUser /\ cardEph[c] = NoWallet
             THEN [same EXCEPT !.cardUser[c] = u]
             ELSE IF cardUser[c] = NoUser
             THEN [same EXCEPT !.fuse = TRUE]
             ELSE IF cardUser[c] = u THEN same
             ELSE [same EXCEPT !.out = Reject("Card already linked to another user")]
        ELSE [same EXCEPT !.out = Reject("User not found ?")]

\* the worker at the head of the fusion loop (lines 448-453)
FusionStarted(u, c, place) ==
    [Idle EXCEPT !.pc = "fuse", !.op = "wallet_create", !.place = place,
                 !.card = c, !.user = u, !.eph = cardEph[c],
                 !.target = userWallet[u],
                 !.todo = IF cardEph[c] # userWallet[u]
                          THEN PositiveTokens(tokens, cardEph[c]) ELSE <<>>,
                 !.base = [tokens |-> tokens, len |-> Len(ledger)]]

WalletCreateBegin(w) ==
    /\ Free(w)
    /\ nops < MaxOps
    /\ \E u \in WalletCreateEmails, c \in WalletCreateCards, p \in WalletCreatePlaces :
         LET new == WalletCreateLinks(u, c)
         IN  /\ cardUser' = new.cardUser
             /\ cardEph' = new.cardEph
             /\ userWallet' = new.userWallet
             /\ wk' = [wk EXCEPT ![w] =
                         IF new.fuse THEN FusionStarted(u, c, p)
                         ELSE [Idle EXCEPT !.op = "wallet_create", !.out = new.out]]
    /\ nops' = nops + 1
    /\ UNCHANGED <<tokens, ledger, cq>>

\* a deviation: one unit more than the token holds
FusionRequestOver(me) ==
    [sender |-> me.eph, receiver |-> me.target, asset |-> Head(me.todo)[1],
     amount |-> Head(me.todo)[2] + 1, action |-> "FUSION", checkout |-> FALSE,
     primary_card |-> NoCard, user_card |-> me.card, place |-> me.place]

\* the data of one fusion transfer (lines 454-461)
FusionRequest(me) ==
    [sender |-> me.eph, receiver |-> me.target, asset |-> Head(me.todo)[1],
     amount |-> Head(me.todo)[2], action |-> "FUSION", checkout |-> FALSE,
     primary_card |-> NoCard, user_card |-> me.card, place |-> me.place]

\* one turn of the loop: TransactionW2W(data=data).is_valid(), or the raise
FuseSubmit(w) ==
    /\ wk[w].pc = "fuse"
    /\ wk[w].todo # <<>>
    /\ LET rq == FusionRequest(wk[w])
       IN  wk' = [wk EXCEPT ![w] =
                    Started([wk[w] EXCEPT !.todo = Tail(wk[w].todo)],
                            "wallet_create", rq, Validate(rq))]
    /\ UNCHANGED <<tokens, ledger, cardUser, cardEph, userWallet, nops, cq>>

\* the answer after the loop (lines 469-478): the card is read again, and
\* linked to the user if its ephemeral wallet has no positive row left
FuseVerdict(me) ==
    IF cardEph[me.card] = NoWallet THEN Crash("AttributeError")
    ELSE IF PositiveTokens(tokens, cardEph[me.card]) # <<>>
    THEN Reject("Wallet ephemere not empty after fusion")
    ELSE Ok("wallet")

FuseCheck(w) ==
    /\ wk[w].pc = "fuse"
    /\ wk[w].todo = <<>>
    /\ LET verdict == FuseVerdict(wk[w])
           linked == verdict.kind = "ok"
       IN  /\ cardEph' = IF linked THEN [cardEph EXCEPT ![wk[w].card] = NoWallet]
                         ELSE cardEph
           /\ cardUser' = IF linked THEN [cardUser EXCEPT ![wk[w].card] = wk[w].user]
                          ELSE cardUser
           /\ wk' = [wk EXCEPT ![w] =
                       IF linked THEN [@ EXCEPT !.pc = "idle", !.out = verdict]
                       ELSE [Idle EXCEPT !.op = "wallet_create", !.out = verdict]]
    /\ UNCHANGED <<tokens, ledger, userWallet, nops, cq>>

(***************************************************************************)
(* The specifications.                                                     *)
(***************************************************************************)
\* before is not a variable of the code: it remembers the store as the last
\* request of the desk found it
NoQuery ==
    [rq |-> "none", got |-> NoResult, res |-> NoResult, again |-> NoResult,
     before |-> <<>>]

InitStore ==
    /\ tokens = OpeningState.tokens
    /\ ledger = OpeningState.ledger
    /\ cardUser = [c \in Cards |-> IF c = "C2" THEN "U1" ELSE NoUser]
    /\ cardEph = [c \in Cards |-> IF c = "C3" THEN "WE" ELSE NoWallet]
    /\ userWallet = [u \in Users |-> IF u = "U1" THEN "WU" ELSE NoWallet]
    /\ wk = [w \in Workers |-> Idle]
    /\ nops = 0

Init == InitStore /\ cq = NoQuery

Step(w) ==
    \/ SubmitBegin(w)
    \/ CreateReceiver(w)
    \/ Mint(w)
    \/ Record(w)
    \/ WalletCreateBegin(w)
    \/ FuseSubmit(w)
    \/ FuseCheck(w)

\* the workers run concurrently
Next == \E w \in Workers : Step(w)

Spec == Init /\ [][Next]_vars

\* one request at a time: a worker starts only when no other is in progress
Alone(w) == \A o \in Workers \ {w} : wk[o].pc = "idle"

StepSeq(w) ==
    \/ Alone(w) /\ SubmitBegin(w)
    \/ Alone(w) /\ CreateReceiver(w)
    \/ Alone(w) /\ Mint(w)
    \/ Alone(w) /\ Record(w)
    \/ Alone(w) /\ WalletCreateBegin(w)
    \/ Alone(w) /\ FuseSubmit(w)
    \/ Alone(w) /\ FuseCheck(w)

NextSeq == \E w \in Workers : StepSeq(w)

SpecSeq == Init /\ [][NextSeq]_vars

(***************************************************************************)
(* The classifier on its own: a request is drawn, then classified.         *)
(***************************************************************************)
ClassifyRequests ==
    [sender : Wallets \ {"WN"}, receiver : Wallets \ {"WN"}, asset : Assets,
     amount : {0, 1}, action : {"NONE", "REFILL", "FUSION", "SALE", "TRANSFER"},
     checkout : BOOLEAN, primary_card : {NoCard, "C1", "C5"},
     user_card : {NoCard, "C2", "C3", "C4"}, place : Places \cup {NoPlace}]

\* get_action as validate calls it, when the request gets that far: the amount
\* is valid and there is a place
Classified(rq) ==
    IF ~ValidateAmount(rq.amount) \/ SelfPlace(rq) = NoPlace THEN NoResult
    ELSE GetAction(rq, SelfPlace(rq))

InitClassify == InitStore /\ cq \in {[NoQuery EXCEPT !.rq = rq] : rq \in ClassifyRequests}

Classify ==
    /\ cq.res = NoResult
    /\ cq' = [cq EXCEPT !.got = Classified(cq.rq), !.res = PreValidate(cq.rq)]
    /\ UNCHANGED <<tokens, ledger, cardUser, cardEph, userWallet, wk, nops>>

\* get_action called a second time on the same request and the same store
ClassifyAgain ==
    /\ cq.got # NoResult
    /\ cq.again = NoResult
    /\ cq' = [cq EXCEPT !.again = Classified(cq.rq)]
    /\ UNCHANGED <<tokens, ledger, cardUser, cardEph, userWallet, wk, nops>>

NextClassify == Classify \/ ClassifyAgain

SpecClassify == InitClassify /\ [][NextClassify]_vars

(***************************************************************************)
(* The desk: one request at a time, of every kind a place or the payment   *)
(* webhook sends, the last one remembered in cq.                           *)
(***************************************************************************)
DeskAmounts == 0 .. MaxAmount

\* what a cash desk of place P posts
DeskPlaceRequests ==
    [sender : {"WP", "WU", "WE"}, receiver : {"WP", "WU"}, asset : {"LOCAL", "SUB"},
     amount : DeskAmounts, action : {"NONE", "FUSION"},
     checkout : {FALSE}, primary_card : {NoCard, "C1"},
     user_card : {NoCard, "C2"}, place : {"P"}]

\* a sale and a refill posted with the action REFILL
DeskRefillRequests ==
    [sender : {"WP", "WU"}, receiver : {"WP", "WU"}, asset : {"LOCAL"},
     amount : {1}, action : {"REFILL"},
     checkout : {FALSE}, primary_card : {"C1"},
     user_card : {NoCard, "C2"}, place : {"P"}]

\* the same posted with no place attached
DeskNoPlaceRequests ==
    [sender : {"WU", "WP"}, receiver : {"WP", "WU"}, asset : {"LOCAL"},
     amount : {1}, action : {"NONE", "REFILL"},
     checkout : {FALSE}, primary_card : {"C1"},
     user_card : {"C2"}, place : {NoPlace}]

\* what the payment webhook posts after a checkout
DeskStripeRequests ==
    [sender : {"WS"}, receiver : {"WU", "WP"}, asset : {"EXT"},
     amount : {0, 1}, action : {"REFILL"},
     checkout : {TRUE}, primary_card : {NoCard},
     user_card : {NoCard, "C2"}, place : {"P", NoPlace}]

\* a sale and a refill posted with a negative amount
DeskNegativeRequests ==
    [sender : {"WP", "WU"}, receiver : {"WP", "WU"}, asset : {"LOCAL"},
     amount : {0 - 1}, action : {"NONE"},
     checkout : {FALSE}, primary_card : {"C1"},
     user_card : {"C2"}, place : {"P"}]

\* what a cash desk of place P2 posts: P2 has no token yet, of any asset
DeskOtherPlaceRequests ==
    [sender : {"WP2"}, receiver : {"WU"}, asset : {"FOREIGN", "SUB", "BDG"},
     amount : {1}, action : {"NONE"},
     checkout : {FALSE}, primary_card : {"C5"},
     user_card : {"C2"}, place : {"P2"}]

\* a sale, and a transfer between two wallets of users, posted with the
\* action TRANSFER
DeskTransferRequests ==
    [sender : {"WU"}, receiver : {"WP", "WU"}, asset : {"LOCAL"},
     amount : {1}, action : {"TRANSFER"},
     checkout : {FALSE}, primary_card : {"C1"},
     user_card : {"C2"}, place : {"P"}]

DeskRequests ==
    DeskPlaceRequests \cup DeskRefillRequests \cup DeskNoPlaceRequests
        \cup DeskStripeRequests \cup DeskNegativeRequests
        \cup DeskOtherPlaceRequests \cup DeskTransferRequests

Store ==
    [tokens |-> tokens, ledger |-> ledger, cardUser |-> cardUser,
     cardEph |-> cardEph, userWallet |-> userWallet]

\* a deviation: the receiver token made before the request is validated
DeskSubmitEager(w) ==
    /\ Free(w)
    /\ Alone(w)
    /\ cq.res = NoResult
    /\ nops < MaxOps
    /\ \E rq \in DeskRequests :
         /\ wk' = [wk EXCEPT ![w] = Started(Idle, "submit", rq, Validate(rq))]
         /\ cq' = [NoQuery EXCEPT !.rq = rq, !.got = Classified(rq),
                                  !.res = PreValidate(rq), !.before = Store]
         /\ tokens' = IF tokens[rq.receiver][rq.asset] = <<>>
                      THEN TokenCreate(tokens, rq.receiver, rq.asset)
                      ELSE tokens
    /\ nops' = nops + 1
    /\ UNCHANGED <<ledger, cardUser, cardEph, userWallet>>

\* TransactionW2W(data=rq).is_valid(), the request remembered
DeskSubmit(w) ==
    /\ Free(w)
    /\ Alone(w)
    /\ cq.res = NoResult
    /\ nops < MaxOps
    /\ \E rq \in DeskRequests :
         /\ wk' = [wk EXCEPT ![w] = Started(Idle, "submit", rq, Validate(rq))]
         /\ cq' = [NoQuery EXCEPT !.rq = rq, !.got = Classified(rq),
                                  !.res = PreValidate(rq), !.before = Store]
    /\ nops' = nops + 1
    /\ UNCHANGED <<tokens, ledger, cardUser, cardEph, userWallet>>

\* the answer is returned and the serializer of the request is dropped
DeskAnswer(w) ==
    /\ wk[w].pc = "idle"
    /\ Alone(w)
    /\ cq.res # NoResult
    /\ wk' = [wk EXCEPT ![w] = Idle]
    /\ cq' = NoQuery
    /\ UNCHANGED <<tokens, ledger, cardUser, cardEph, userWallet, nops>>

(***************************************************************************)
(* CardRefundOrVoidValidator: the tokens a card holds in the local assets  *)
(* of the place go back to the place, and a void unlinks the card.         *)
(***************************************************************************)
\* the requests of the desk for a refund or a void; NONE is a request sent
\* without the action field
RefundActions == {"NONE", "REFUND", "VOID", "SALE"}
RefundPrimaryCards == {NoCard, "C1", "C5"}
RefundUserCards == {NoCard, "C2", "C3"}
RefundPlaces == {"P"}

RefundRequests ==
    [primary_card : RefundPrimaryCards, user_card : RefundUserCards,
     action : RefundActions, place : RefundPlaces]

\* validate_action
ValidateAction(value) == value \in {"REFUND", "VOID"}

\* a deviation: the tokens swept are those of the assets the place accepts
RefundableAccepted(a, place) == a \in AcceptedAssets(place)

\* the filter of the sweep on the asset (lines 196-197)
Refundable(a, place) ==
    /\ WalletOrigin(a) = PlaceWallet(place)
    /\ Category(a) \in {"TLF", "TNF"}

\* wallet.tokens.filter(value__gt=0, asset__wallet_origin=...,
\* asset__category__in=...), as <<asset, value>> pairs
RefundTokens(tok, wal, place) ==
    LET Keep(pair) == Refundable(pair[1], place)
    IN  SelectSeq(PositiveTokens(tok, wal), Keep)

\* the loop of the sweep (lines 194-211): one REFUND per token, of its value
RECURSIVE Sweep(_, _, _, _)
Sweep(st, todo, wal, place) ==
    IF todo = <<>> THEN st
    ELSE Sweep(TransactionCreate(st, "REFUND", wal, PlaceWallet(place),
                                 Head(todo)[1], Head(todo)[2]),
               Tail(todo), wal, place)

\* a deviation: the card is unlinked whatever the action
DetachesAlways(action) == TRUE

\* whether the card is unlinked (line 214)
Detaches(action) == action = "VOID"

\* validate_action and validate: the answer and the store it leaves
RefundOrVoid(rq) ==
    LET same == [out |-> NoResult, tokens |-> tokens, ledger |-> ledger,
                 cardUser |-> cardUser, cardEph |-> cardEph]
        wal == GetWallet(rq.user_card)
        st == Sweep([tokens |-> tokens, ledger |-> ledger],
                    RefundTokens(tokens, wal, rq.place), wal, rq.place)
    IN  IF rq.action # "NONE" /\ ~ValidateAction(rq.action)
        THEN [same EXCEPT !.out = Reject("Action must be REFUND or VOID")]
        ELSE IF rq.primary_card \notin PrimaryCards(rq.place)
        THEN [same EXCEPT !.out = Reject("Primary card must be in place primary cards")]
        ELSE IF rq.user_card = NoCard
        THEN [same EXCEPT !.out = Reject("User card is required for void or refund")]
        ELSE IF wal = NoWallet
        THEN [same EXCEPT !.out = Crash("AttributeError")]
        ELSE [out |-> Ok(rq.action), tokens |-> st.tokens, ledger |-> st.ledger,
              cardUser |-> IF Detaches(rq.action)
                           THEN [cardUser EXCEPT ![rq.user_card] = NoUser]
                           ELSE cardUser,
              cardEph |-> IF Detaches(rq.action)
                          THEN [cardEph EXCEPT ![rq.user_card] = NoWallet]
                          ELSE cardEph]

\* the request as the desk remembers it
RefundQuery(rq) ==
    [sender |-> IF rq.user_card = NoCard THEN NoWallet ELSE GetWallet(rq.user_card),
     receiver |-> PlaceWallet(rq.place), asset |-> "none", amount |-> 0,
     action |-> rq.action, checkout |-> FALSE, primary_card |-> rq.primary_card,
     user_card |-> rq.user_card, place |-> rq.place]

\* CardRefundOrVoidValidator(data=rq).is_valid()
DeskRefund(w) ==
    /\ Free(w)
    /\ Alone(w)
    /\ cq.res = NoResult
    /\ nops < MaxOps
    /\ \E rq \in RefundRequests :
         LET new == RefundOrVoid(rq)
         IN  /\ tokens' = new.tokens
             /\ ledger' = new.ledger
             /\ cardUser' = new.cardUser
             /\ cardEph' = new.cardEph
             /\ wk' = [wk EXCEPT ![w] = [Idle EXCEPT !.op = "refund", !.out = new.out]]
             /\ cq' = [NoQuery EXCEPT !.rq = RefundQuery(rq), !.res = new.out,
                                      !.before = Store]
    /\ nops' = nops + 1
    /\ UNCHANGED userWallet

(***************************************************************************)
(* BadgeValidator: a card is badged at a place.                            *)
(***************************************************************************)
BadgeCards == {"C2", "C3"}
BadgePrimaryCards == {"C1", "C5"}
BadgeAssets == {"BDG", "LOCAL"}
BadgePlaces == {"P"}

BadgeRequests ==
    [card : BadgeCards, primary_card : BadgePrimaryCards, asset : BadgeAssets,
     place : BadgePlaces]

\* the amount of the transaction of a badge (line 548)
BadgeAmount == 0

\* validate: the answer and the store it leaves
Badge(rq) ==
    LET wal == GetWallet(rq.card)
        st == TransactionCreate([tokens |-> tokens, ledger |-> ledger], "BADGE",
                                wal, PlaceWallet(rq.place), rq.asset, BadgeAmount)
    IN  IF wal = NoWallet
        THEN [out |-> Crash("IntegrityError"), tokens |-> tokens, ledger |-> ledger]
        ELSE [out |-> Ok("BADGE"), tokens |-> st.tokens, ledger |-> st.ledger]

\* the request as the desk remembers it
BadgeQuery(rq) ==
    [sender |-> GetWallet(rq.card), receiver |-> PlaceWallet(rq.place),
     asset |-> rq.asset, amount |-> BadgeAmount, action |-> "BADGE",
     checkout |-> FALSE, primary_card |-> rq.primary_card,
     user_card |-> rq.card, place |-> rq.place]

\* BadgeValidator(data=rq).is_valid()
DeskBadge(w) ==
    /\ Free(w)
    /\ Alone(w)
    /\ cq.res = NoResult
    /\ nops < MaxOps
    /\ \E rq \in BadgeRequests :
         LET new == Badge(rq)
         IN  /\ tokens' = new.tokens
             /\ ledger' = new.ledger
             /\ wk' = [wk EXCEPT ![w] = [Idle EXCEPT !.op = "badge", !.out = new.out]]
             /\ cq' = [NoQuery EXCEPT !.rq = BadgeQuery(rq), !.res = new.out,
                                      !.before = Store]
    /\ nops' = nops + 1
    /\ UNCHANGED <<cardUser, cardEph, userWallet>>

StepDesk(w) ==
    \/ DeskSubmit(w)
    \/ DeskRefund(w)
    \/ DeskBadge(w)
    \/ DeskAnswer(w)
    \/ Alone(w) /\ cq.res = NoResult /\ WalletCreateBegin(w)
    \/ Alone(w) /\ FuseSubmit(w)
    \/ Alone(w) /\ FuseCheck(w)
    \/ Alone(w) /\ CreateReceiver(w)
    \/ Alone(w) /\ Mint(w)
    \/ Alone(w) /\ Record(w)

NextDesk == \E w \in Workers : StepDesk(w)

SpecDesk == Init /\ [][NextDesk]_vars

(***************************************************************************)
(* Signatures: utils.sign_message and utils.verify_signature.  A public   *)
(* key is the text a place registered, PEM or not; a signature is the text *)
(* of the header: URL-safe base64 of an RSA-PSS signature made by some key *)
(* over some message, of bytes that no key made, or no base64 at all.      *)
(***************************************************************************)
NoKey == "NoKey"

\* the bodies of the signed requests
SignedBodies ==
    [sender : {"WU", "WP"}, receiver : {"WP", "WU"}, asset : {"LOCAL", "SUB"},
     amount : {1}, action : {"NONE"}, checkout : {FALSE},
     primary_card : {"C1"}, user_card : {"C2"}]

\* dict_to_b64(request.data): the URL-safe base64 of the JSON of the body
DictToB64(body) == [b64 |-> [json |-> body]]

Messages == {DictToB64(body) : body \in SignedBodies}
AnyMessage == CHOOSE m \in Messages : TRUE

\* the PEM text of the public key of a place, and a text that is no PEM
Pem(p) == [kind |-> "pem", place |-> p]
NotPem == [kind |-> "text", place |-> NoPlace]
PublicKeys == {Pem(p) : p \in Places} \cup {NotPem}

\* sign_message(message, private_key), with the private key of place p
SignMessage(message, p) == [enc |-> "b64", key |-> p, msg |-> message]

\* base64 of bytes that are nobody's signature, and a text with a padding
\* that base64 does not accept
ForgedSignature == [enc |-> "b64", key |-> NoKey, msg |-> AnyMessage]
BadPaddingSignature == [enc |-> "text", key |-> NoKey, msg |-> AnyMessage]
NoSignature == [enc |-> "none", key |-> NoKey, msg |-> AnyMessage]

Signatures ==
    {SignMessage(m, p) : m \in Messages, p \in Places}
        \cup {ForgedSignature, BadPaddingSignature}

Returned(b) == [kind |-> "return", value |-> IF b THEN "True" ELSE "False"]

\* public_key.verify(...): whether the bytes are the signature of the message
\* by the private key that goes with the public key
PssVerifies(public_key, message, signature) ==
    signature.key = public_key.place /\ signature.msg = message

\* verify_signature: load_pem_public_key raises ValueError on a text that is
\* no PEM, urlsafe_b64decode raises binascii.Error on a wrong padding, and
\* only InvalidSignature is caught
VerifySignature(public_key, message, signature) ==
    IF public_key.kind # "pem" THEN Crash("ValueError")
    ELSE IF signature.enc # "b64" THEN Crash("binascii.Error")
    ELSE Returned(PssVerifies(public_key, message, signature))

VerifyQueries ==
    [public_key : PublicKeys, message : Messages, signature : Signatures]

InitVerify == InitStore /\ cq \in {[NoQuery EXCEPT !.rq = q] : q \in VerifyQueries}

Verify ==
    /\ cq.got = NoResult
    /\ cq' = [cq EXCEPT !.got = VerifySignature(cq.rq.public_key, cq.rq.message,
                                                cq.rq.signature)]
    /\ UNCHANGED <<tokens, ledger, cardUser, cardEph, userWallet, wk, nops>>

NextVerify == Verify

SpecVerify == InitVerify /\ [][NextVerify]_vars

(***************************************************************************)
(* The gate: HasKeyAndCashlessSignature.has_permission, then the view that *)
(* hands the body to TransactionW2W when the permission is granted.        *)
(***************************************************************************)
\* the API keys a request may carry: none, one that no place has, and the
\* keys of the two places
ApiKeys == {NoKey, "unknown", "kP", "kP2"}
RegisteredKeys == {"kP", "kP2"}

\* api_key.place
KeyPlace(k) == IF k = "kP" THEN "P" ELSE IF k = "kP2" THEN "P2" ELSE NoPlace

\* api_key.place.cashless_public_key()
CashlessPublicKey(p) == Pem(p)

GateRequests ==
    [key : ApiKeys, signature : Signatures \cup {NoSignature}, body : SignedBodies]

\* a deviation: the signature looked for, and not verified
HasPermissionUnverified(req) ==
    IF req.key = NoKey THEN Returned(FALSE)
    ELSE IF req.key \notin RegisteredKeys THEN Crash("DoesNotExist")
    ELSE Returned(req.signature # NoSignature)

\* has_permission: get_from_key raises DoesNotExist for a key it does not
\* know; the last call, of BaseHasAPIKey, checks the key once more
HasPermission(req) ==
    IF req.key = NoKey THEN Returned(FALSE)
    ELSE IF req.key \notin RegisteredKeys THEN Crash("DoesNotExist")
    ELSE IF req.signature = NoSignature THEN Returned(FALSE)
    ELSE LET verified == VerifySignature(CashlessPublicKey(KeyPlace(req.key)),
                                         DictToB64(req.body), req.signature)
         IN  IF verified.kind = "error" THEN verified
             ELSE IF verified = Returned(TRUE)
             THEN Returned(req.key \in RegisteredKeys)
             ELSE Returned(FALSE)

\* the data the view gives to the serializer: the body, and the place of the
\* key as request.place
GateSubmit(req) ==
    [sender |-> req.body.sender, receiver |-> req.body.receiver,
     asset |-> req.body.asset, amount |-> req.body.amount,
     action |-> req.body.action, checkout |-> req.body.checkout,
     primary_card |-> req.body.primary_card, user_card |-> req.body.user_card,
     place |-> KeyPlace(req.key)]

GateMark == [kind |-> "gate", value |-> "gate"]

\* a request comes in: the permission is checked, and the serializer runs
\* only if it is granted
GateRequest(w) ==
    /\ Free(w)
    /\ Alone(w)
    /\ cq.res = NoResult
    /\ nops < MaxOps
    /\ \E req \in GateRequests :
         LET permission == HasPermission(req)
         IN  /\ wk' = [wk EXCEPT ![w] =
                         IF permission = Returned(TRUE)
                         THEN Started(Idle, "submit", GateSubmit(req),
                                      Validate(GateSubmit(req)))
                         ELSE [Idle EXCEPT !.op = "auth",
                                           !.out = IF permission.kind = "error"
                                                   THEN permission
                                                   ELSE Reject("Forbidden")]]
             /\ cq' = [NoQuery EXCEPT !.rq = req, !.got = permission,
                                      !.res = GateMark, !.before = Store]
    /\ nops' = nops + 1
    /\ UNCHANGED <<tokens, ledger, cardUser, cardEph, userWallet>>

StepGate(w) ==
    \/ GateRequest(w)
    \/ DeskAnswer(w)
    \/ Alone(w) /\ CreateReceiver(w)
    \/ Alone(w) /\ Mint(w)
    \/ Alone(w) /\ Record(w)

NextGate == \E w \in Workers : StepGate(w)

SpecGate == Init /\ [][NextGate]_vars

(***************************************************************************)
(* The wallet-create requests of a desk, one at a time: the request and    *)
(* the store it found are remembered until it is answered.                 *)
(***************************************************************************)
LinkMark == [kind |-> "link", value |-> "link"]

LinkRequest(w) ==
    /\ Free(w)
    /\ Alone(w)
    /\ cq.res = NoResult
    /\ nops < MaxOps
    /\ \E u \in WalletCreateEmails, c \in WalletCreateCards, p \in WalletCreatePlaces :
         LET new == WalletCreateLinks(u, c)
         IN  /\ cardUser' = new.cardUser
             /\ cardEph' = new.cardEph
             /\ userWallet' = new.userWallet
             /\ wk' = [wk EXCEPT ![w] =
                         IF new.fuse THEN FusionStarted(u, c, p)
                         ELSE [Idle EXCEPT !.op = "wallet_create", !.out = new.out]]
             /\ cq' = [NoQuery EXCEPT !.rq = [email |-> u, card |-> c, place |-> p],
                                      !.res = LinkMark, !.before = Store]
    /\ nops' = nops + 1
    /\ UNCHANGED <<tokens, ledger>>

StepLinks(w) ==
    \/ LinkRequest(w)
    \/ DeskAnswer(w)
    \/ Alone(w) /\ FuseSubmit(w)
    \/ Alone(w) /\ FuseCheck(w)
    \/ Alone(w) /\ CreateReceiver(w)
    \/ Alone(w) /\ Record(w)

NextLinks == \E w \in Workers : StepLinks(w)

SpecLinks == Init /\ [][NextLinks]_vars

(***************************************************************************)
(* The claims about the engine.                                            *)
(***************************************************************************)
LastRow(led) == led[Len(led)]

\* worker w records the transaction of its request in this step
Records(w) ==
    /\ wk[w].pc = "record"
    /\ wk'[w].pc # "record"
    /\ Len(ledger') = Len(ledger) + 1

\* what a transfer of amt of asset a from s to r does to the balance of (x, b)
Delta(s, r, a, amt, x, b) ==
    IF b # a THEN 0
    ELSE (IF x = r THEN amt ELSE 0) - (IF x = s THEN amt ELSE 0)

\* C1 Conservation: a transaction recorded by submit is the request's own
\* (action, sender, receiver, asset, amount), its action is not CREATION, REFUND
\* or VOID, and it moves exactly the amount from the sender's balance to the
\* receiver's (nothing when they are the same wallet): every balance changes by
\* its share of that transfer and by nothing else, so the supply of every asset
\* is the same before and after.
C1_Conservation ==
    [][\A w \in Workers :
         Records(w) =>
           LET me == wk[w]
               row == LastRow(ledger')
           IN  /\ row.action = me.action
               /\ row.action \notin {"CREATION", "REFUND", "VOID"}
               /\ row.sender = me.sender /\ row.receiver = me.receiver
               /\ row.asset = me.asset /\ row.amount = me.amount
               /\ \A x \in Wallets, b \in Assets :
                    BalanceIn(tokens', x, b) =
                      Balance(x, b)
                      + Delta(me.sender, me.receiver, me.asset, me.amount, x, b)
               /\ \A b \in Assets : SupplyIn(tokens', b) = Supply(b)]_vars

\* a sale between two wallets has been recorded
C1_Witness ==
    \E w \in Workers :
      /\ wk[w].op = "submit" /\ wk[w].out = Ok("SALE")
      /\ wk[w].sender # wk[w].receiver /\ wk[w].amount > 0
      /\ LastRow(ledger).action = "SALE"

\* C2 Non-negativity: every token of every (wallet, asset) pair is >= 0 in
\* every reachable state.
C2_NonNegative ==
    \A x \in Wallets, b \in Assets :
      \A i \in 1 .. Len(tokens[x][b]) : tokens[x][b][i] >= 0

\* C3 No double-spend: two sales that both read the balance seen of the same
\* token, with amounts that sum to more than seen, do not both succeed (here:
\* no state where both have succeeded and the token stands at seen minus both).
C3_NoDoubleSpend ==
    \A w1, w2 \in Workers :
      ~ /\ w1 # w2
        /\ wk[w1].op = "submit" /\ wk[w1].out = Ok("SALE")
        /\ wk[w2].op = "submit" /\ wk[w2].out = Ok("SALE")
        /\ wk[w1].sender = wk[w2].sender /\ wk[w1].asset = wk[w2].asset
        /\ wk[w1].seen = wk[w2].seen
        /\ wk[w1].amount + wk[w2].amount > wk[w1].seen
        /\ Balance(wk[w1].sender, wk[w1].asset) =
             wk[w1].seen - wk[w1].amount - wk[w2].amount

\* C4 Minting only through CREATION: a step raises the supply of an asset only
\* by recording a CREATION of that asset, and then by exactly its amount; a
\* CREATION has sender = receiver and is recorded only by a worker whose
\* request was classified REFILL, with the sender, asset and amount of that
\* request, the worker going on to record the REFILL.
C4_MintingOnlyThroughCreation ==
    [][/\ \A b \in Assets :
            SupplyIn(tokens', b) > Supply(b) =>
              /\ Len(ledger') = Len(ledger) + 1
              /\ LastRow(ledger').action = "CREATION"
              /\ LastRow(ledger').asset = b
              /\ SupplyIn(tokens', b) = Supply(b) + LastRow(ledger').amount
       /\ (Len(ledger') > Len(ledger) /\ LastRow(ledger').action = "CREATION") =>
            /\ Len(ledger') = Len(ledger) + 1
            /\ LastRow(ledger').sender = LastRow(ledger').receiver
            /\ \E w \in Workers :
                 /\ wk[w].pc = "mint" /\ wk[w].action = "REFILL"
                 /\ wk'[w].pc = "record" /\ wk'[w].action = "REFILL"
                 /\ LastRow(ledger').sender = wk[w].sender
                 /\ LastRow(ledger').asset = wk[w].asset
                 /\ LastRow(ledger').amount = wk[w].amount]_vars

\* a refill has recorded its CREATION and is about to record the REFILL
C4_Witness ==
    \E w \in Workers :
      /\ wk[w].pc = "record" /\ wk[w].action = "REFILL"
      /\ Len(ledger) > Len(OpeningState.ledger)
      /\ LastRow(ledger).action = "CREATION"
      /\ LastRow(ledger).amount = wk[w].amount
      /\ Supply(wk[w].asset) = SupplyIn(OpeningState.tokens, wk[w].asset) + wk[w].amount

\* worker w ends a fusion (a wallet creation for a card that has an ephemeral
\* wallet and an existing user) in this step
FusionEnds(w) ==
    /\ wk[w].op = "wallet_create"
    /\ wk[w].pc = "fuse"
    /\ wk'[w].pc = "idle"

\* C5 Fusion atomicity: a fusion ends in exactly one of two ways: it succeeds,
\* the ephemeral wallet then holds zero of every asset and the card is linked
\* to the user and to no ephemeral wallet; or it fails, the card is still
\* linked to its ephemeral wallet and to no user.
C5_FusionAtomicity ==
    [][\A w \in Workers :
         FusionEnds(w) =>
           LET me == wk[w]
           IN  \/ /\ wk'[w].out.kind = "ok"
                  /\ \A b \in Assets : BalanceIn(tokens', me.eph, b) = 0
                  /\ cardUser'[me.card] = me.user
                  /\ cardEph'[me.card] = NoWallet
               \/ /\ wk'[w].out.kind # "ok"
                  /\ cardEph'[me.card] = me.eph
                  /\ cardUser'[me.card] = NoUser]_vars

\* the FUSION transactions of asset b from s to r recorded after row n
FusionRows(n, s, r, b) ==
    {i \in (n + 1) .. Len(ledger) :
       /\ ledger[i].action = "FUSION" /\ ledger[i].asset = b
       /\ ledger[i].sender = s /\ ledger[i].receiver = r}

\* C6 Fusion transfers everything: when a fusion, run on its own, succeeds,
\* then for every asset of which the ephemeral wallet held v > 0 when the
\* fusion began, exactly one FUSION of that asset from the ephemeral wallet to
\* the user's wallet has been recorded since, its amount is v, the user's
\* balance stands v above what it was and the ephemeral wallet's at zero.
C6_FusionTransfersEverything ==
    [][\A w \in Workers :
         (FusionEnds(w) /\ wk'[w].out.kind = "ok") =>
           LET me == wk[w]
           IN  \A b \in Assets :
                 LET v == BalanceIn(me.base.tokens, me.eph, b)
                     rows == FusionRows(me.base.len, me.eph, me.target, b)
                 IN  v > 0 =>
                       /\ Cardinality(rows) = 1
                       /\ \A i \in rows : ledger[i].amount = v
                       /\ Balance(me.target, b) =
                            BalanceIn(me.base.tokens, me.target, b) + v
                       /\ Balance(me.eph, b) = 0]_vars

\* a fusion has succeeded for an ephemeral wallet that held two assets
C6_Witness ==
    \E w \in Workers :
      /\ wk[w].op = "wallet_create" /\ wk[w].pc = "idle"
      /\ wk[w].out.kind = "ok" /\ wk[w].eph # NoWallet
      /\ BalanceIn(wk[w].base.tokens, wk[w].eph, "LOCAL") > 0
      /\ BalanceIn(wk[w].base.tokens, wk[w].eph, "EXT") > 0
      /\ cardUser[wk[w].card] = wk[w].user

\* the values a stored field may be changed to
FieldValues(f) ==
    CASE f = "action" -> Actions
      [] f \in {"sender", "receiver"} -> Wallets
      [] f = "asset" -> Assets
      [] f = "amount" -> 0 .. (MaxAmount + 1)
      [] f = "datetime" -> {0, 1, Len(ledger), Len(ledger) + 1}
      [] f = "previous" -> 0 .. Len(ledger)

HashedFields == {"action", "sender", "receiver", "asset", "amount", "datetime", "previous"}

IsClassified == cq.res # NoResult /\ cq.got # NoResult /\ cq.rq.place # NoPlace

\* the five conditions of a sale at place
SaleConditions(rq, place) ==
    /\ rq.primary_card # NoCard
    /\ rq.primary_card \in PrimaryCards(place)
    /\ rq.user_card # NoCard
    /\ rq.receiver \in AuthorityDelegation(rq.user_card)
    /\ rq.asset \in AcceptedAssets(place)

\* the receiver is the wallet of the requesting place and the sender is not
ToPlace(rq) ==
    /\ rq.receiver = PlaceWallet(rq.place)
    /\ rq.sender # PlaceWallet(rq.place)

\* C8 as stated: when the receiver is the requesting place's wallet and the
\* sender is not, the classifier returns SALE if and only if the five
\* conditions hold, and rejects otherwise, whatever the hint.
C8_SaleWhateverTheHint ==
    (IsClassified /\ ToPlace(cq.rq)) =>
      IF SaleConditions(cq.rq, cq.rq.place) THEN cq.got = Act("SALE")
      ELSE cq.got.kind = "reject"

\* C8 SALE classification, amended: when the receiver is the requesting
\* place's wallet, the sender is not, and the request is not an external
\* refill (hint REFILL, checkout attached, primary sender, Stripe asset), the
\* classifier returns SALE if and only if the five conditions hold, and
\* rejects otherwise, whatever the hint.
C8_SaleClassification ==
    (IsClassified /\ ToPlace(cq.rq) /\ ~IsStripeRefill(cq.rq)) =>
      IF SaleConditions(cq.rq, cq.rq.place) THEN cq.got = Act("SALE")
      ELSE cq.got.kind = "reject"

\* a request hinted FUSION to the place's wallet has been classified SALE
C8_Witness ==
    /\ IsClassified /\ ToPlace(cq.rq)
    /\ cq.rq.action = "FUSION"
    /\ cq.got = Act("SALE")

\* the sender is the wallet of the requesting place, and the request is not an
\* external refill
FromPlace(rq) ==
    /\ rq.sender = PlaceWallet(rq.place)
    /\ ~IsStripeRefill(rq)

\* C9 Place-as-sender priority: when the sender is the requesting place's
\* wallet and the request is not an external refill, an asset of category
\* SUBSCRIPTION is classified SUBSCRIBE and an asset of category BADGE is
\* classified BADGE, whoever the receiver and whatever the cards, and the
\* request is never classified SALE or FUSION.
C9_PlaceSenderPriority ==
    (IsClassified /\ FromPlace(cq.rq)) =>
      /\ Category(cq.rq.asset) = "SUBSCRIPTION" => cq.got = Act("SUBSCRIBE")
      /\ Category(cq.rq.asset) = "BADGE" => cq.got = Act("BADGE")
      /\ cq.got \notin {Act("SALE"), Act("FUSION")}

\* a place's transfer of a subscription asset to itself, with no card, has
\* been classified SUBSCRIBE
C9_Witness ==
    /\ IsClassified /\ FromPlace(cq.rq)
    /\ cq.rq.sender = cq.rq.receiver
    /\ cq.rq.primary_card = NoCard /\ cq.rq.user_card = NoCard
    /\ Category(cq.rq.asset) = "SUBSCRIPTION"
    /\ cq.got = Act("SUBSCRIBE")

\* the sender is the requesting place's wallet and the asset is neither a
\* subscription nor a badge
LocalRefillCase(rq) ==
    /\ rq.sender = PlaceWallet(rq.place)
    /\ Category(rq.asset) \notin {"SUBSCRIPTION", "BADGE"}

BothCards(rq) == rq.primary_card # NoCard /\ rq.user_card # NoCard

\* C10 as stated: in the local refill case the request is rejected if sender =
\* receiver and the asset originates from this place's wallet; in every other
\* case it is classified REFILL exactly when both cards are present, and
\* rejected otherwise.
C10_RefillUnlessOwnAsset ==
    (IsClassified /\ LocalRefillCase(cq.rq)) =>
      IF /\ cq.rq.sender = cq.rq.receiver
         /\ WalletOrigin(cq.rq.asset) = PlaceWallet(cq.rq.place)
      THEN cq.got.kind = "reject"
      ELSE IF BothCards(cq.rq) THEN cq.got = Act("REFILL")
      ELSE cq.got.kind = "reject"

\* C10 Local REFILL classification, amended: in the local refill case the
\* request is rejected if sender = receiver, whatever the origin of the asset;
\* in every other case it is classified REFILL exactly when both cards are
\* present, and rejected otherwise.
C10_LocalRefill ==
    (IsClassified /\ LocalRefillCase(cq.rq)) =>
      IF cq.rq.sender = cq.rq.receiver
      THEN cq.got.kind = "reject"
      ELSE IF BothCards(cq.rq) THEN cq.got = Act("REFILL")
      ELSE cq.got.kind = "reject"

\* a place's transfer to itself of an asset that another wallet issued, with
\* both cards, has been rejected
C10_Witness ==
    /\ IsClassified /\ LocalRefillCase(cq.rq)
    /\ cq.rq.sender = cq.rq.receiver
    /\ WalletOrigin(cq.rq.asset) # PlaceWallet(cq.rq.place)
    /\ BothCards(cq.rq)
    /\ cq.got = Reject("Unauthorized wallet_origin")

\* the request has been through validate and its amount was valid
IsValidated == cq.res # NoResult /\ ValidateAmount(cq.rq.amount)

\* C11 External REFILL has top priority: a request with a valid amount that is
\* an external refill (hint REFILL, checkout attached, primary sender wallet,
\* Stripe asset) and reaches the classifier is classified REFILL, whoever the
\* receiver and whatever the cards; with no requesting place, every request
\* that is not an external refill is rejected with 'Place not found', and
\* only an external refill gets as far as an action.
C11_ExternalRefillFirst ==
    IsValidated =>
      /\ (IsStripeRefill(cq.rq) /\ cq.got # NoResult) => cq.got = Act("REFILL")
      /\ (cq.rq.place = NoPlace /\ ~IsStripeRefill(cq.rq)) =>
           cq.res = Reject("Place not found")
      /\ (cq.rq.place = NoPlace /\ cq.res.kind = "action") =>
           (IsStripeRefill(cq.rq) /\ cq.res = Act("REFILL"))

\* an external refill addressed to the requesting place's own wallet, with no
\* card, has been classified REFILL
C11_Witness ==
    /\ IsValidated /\ IsStripeRefill(cq.rq)
    /\ cq.rq.place # NoPlace
    /\ cq.rq.receiver = PlaceWallet(cq.rq.place)
    /\ cq.rq.primary_card = NoCard
    /\ cq.res = Act("REFILL")

\* neither the sender nor the receiver is the wallet of the requesting place
BesidePlace(rq) ==
    /\ rq.sender # PlaceWallet(rq.place)
    /\ rq.receiver # PlaceWallet(rq.place)

\* the sender is the ephemeral wallet of a card that the requesting place
\* issued and has no user, the receiver has one
FusionWallets(rq) ==
    /\ WalletUser(rq.sender) = NoUser
    /\ CardEphemere(rq.sender) # NoCard
    /\ WalletUser(rq.receiver) # NoUser
    /\ CardOrigin(CardEphemere(rq.sender)) = rq.place

FusionConditions(rq) ==
    /\ BesidePlace(rq)
    /\ rq.action = "FUSION"
    /\ FusionWallets(rq)

\* C12 as stated: a request is classified FUSION only when all the conditions
\* hold (neither wallet is the place's, hint FUSION, sender without user and
\* ephemeral wallet of a card of this place, receiver with a user); a request
\* hinted FUSION for which any of them fails is rejected with 'No action
\* authorized'.
C12_FusionOrNoAction ==
    IsClassified =>
      /\ cq.got = Act("FUSION") => FusionConditions(cq.rq)
      /\ (cq.rq.action = "FUSION" /\ ~FusionConditions(cq.rq)) =>
           cq.got = Reject("No action authorized")

\* C12 FUSION classification, amended: a request is classified FUSION only
\* when all the conditions hold; a request hinted FUSION in which neither
\* wallet is the requesting place's and one of the conditions on the wallets
\* fails is rejected with 'No action authorized' (when a wallet is the
\* place's, the rules of the place decide, whatever the hint).
C12_FusionClassification ==
    IsClassified =>
      /\ cq.got = Act("FUSION") => FusionConditions(cq.rq)
      /\ (cq.rq.action = "FUSION" /\ BesidePlace(cq.rq) /\ ~FusionWallets(cq.rq)) =>
           cq.got = Reject("No action authorized")

\* a request hinted FUSION from an ephemeral wallet whose card another place
\* issued has been rejected
C12_Witness ==
    /\ IsClassified /\ cq.rq.action = "FUSION" /\ BesidePlace(cq.rq)
    /\ CardEphemere(cq.rq.sender) # NoCard
    /\ WalletUser(cq.rq.receiver) # NoUser
    /\ CardOrigin(CardEphemere(cq.rq.sender)) # cq.rq.place
    /\ cq.got = Reject("No action authorized")

\* validate gets as far as get_action: the amount is valid and there is a place
ReachesClassifier(rq) == ValidateAmount(rq.amount) /\ SelfPlace(rq) # NoPlace

Posted(w) == wk[w].op = "submit" /\ wk[w].pc = "idle" /\ cq.res # NoResult

\* C14 as stated: submit never records a SALE for a request whose hint is
\* REFILL.
C14_NoSaleForRefillHint ==
    \A w \in Workers :
      ~(Posted(w) /\ wk[w].out = Ok("SALE") /\ cq.rq.action = "REFILL")

\* the hints a request could have carried instead without becoming an
\* external refill
OtherHints(rq) ==
    {h \in Hints : ~IsStripeRefill([rq EXCEPT !.action = h])}

\* C14 The hint never overrides classification, amended: the action recorded
\* for a request is the one get_action gave it, and it is the action of the
\* transaction recorded last; unless the request is an external refill or the
\* action is FUSION, get_action gives the same action whatever the hint (so a
\* request hinted REFILL that meets the rule of the sale is recorded as SALE).
C14_ClassificationDecides ==
    \A w \in Workers :
      (Posted(w) /\ wk[w].out.kind = "ok") =>
        /\ cq.got = Act(wk[w].out.value)
        /\ LastRow(ledger).action = wk[w].out.value
        /\ Len(ledger) > Len(cq.before.ledger)
        /\ (wk[w].out.value # "FUSION" /\ ~IsStripeRefill(cq.rq)) =>
             \A h \in OtherHints(cq.rq) :
               Classified([cq.rq EXCEPT !.action = h]) = cq.got

\* a request hinted REFILL from a user's wallet to the place's has been
\* recorded as SALE
C14_Witness ==
    \E w \in Workers :
      /\ Posted(w) /\ wk[w].out = Ok("SALE")
      /\ cq.rq.action = "REFILL"
      /\ LastRow(ledger).action = "SALE"
      /\ LastRow(ledger).sender = cq.rq.sender

\* the rows of the sender's token as the last request found them
SenderRows == cq.before.tokens[cq.rq.sender][cq.rq.asset]

\* C15 Balance check: a request classified SALE that passed the check of the
\* parties is recorded only if the sender had a token of the asset worth at
\* least the amount; with no such token it is rejected with 'Sender token does
\* not exist', with a token worth less with 'Not enough token on sender
\* wallet'.
C15_BalanceCheck ==
    \A w \in Workers :
      (Posted(w) /\ cq.res = Act("SALE")) =>
        /\ wk[w].out = Ok("SALE") =>
             (Len(SenderRows) = 1 /\ SenderRows[1] >= cq.rq.amount)
        /\ SenderRows = <<>> =>
             wk[w].out = Reject("Sender token does not exist")
        /\ (Len(SenderRows) = 1 /\ SenderRows[1] < cq.rq.amount) =>
             wk[w].out = Reject("Not enough token on sender wallet")

\* a sale of an asset of which the user has no token has been rejected
C15_Witness ==
    \E w \in Workers :
      /\ Posted(w) /\ cq.res = Act("SALE")
      /\ SenderRows = <<>>
      /\ wk[w].out = Reject("Sender token does not exist")
      /\ Store = cq.before

\* the request was refused by the check of the amount, by the classification,
\* by the check of the parties or by the check of the balance
RejectedEarly(w) ==
    /\ Posted(w)
    /\ wk[w].out.kind = "reject"
    /\ wk[w].out.value # "Transaction hash is not valid"

\* C16 Rejection changes nothing: after a request refused by the check of the
\* amount, the classification, the check of the parties or the check of the
\* balance, the tokens (their rows and their values), the ledger and the links
\* of the cards are what they were when the request came in.
C16_RejectionChangesNothing ==
    \A w \in Workers : RejectedEarly(w) => Store = cq.before

\* a request refused for its sender's token, whose receiver had no token of
\* the asset either, after an earlier request was recorded
C16_Witness ==
    \E w \in Workers :
      /\ RejectedEarly(w)
      /\ wk[w].out = Reject("Sender token does not exist")
      /\ cq.before.tokens[cq.rq.receiver][cq.rq.asset] = <<>>
      /\ Len(ledger) > Len(OpeningState.ledger)
      /\ Store = cq.before

\* C17 Amounts: a posted request with an amount of zero or less is rejected
\* with 'Amount must be positive', whatever its action would be (SALE, REFILL
\* and FUSION included); every transaction of the ledger has an amount of
\* zero or more, and an amount of zero only with the action BADGE.
C17_Amounts ==
    /\ \A w \in Workers :
         (Posted(w) /\ cq.rq.amount <= 0) =>
           wk[w].out = Reject("Amount must be positive")
    /\ \A i \in 1 .. Len(ledger) :
         /\ ledger[i].amount >= 0
         /\ ledger[i].amount = 0 => ledger[i].action = "BADGE"

\* a request with a negative amount has been rejected, after a badge was
\* recorded with the amount zero
C17_Witness ==
    \E w \in Workers :
      /\ Posted(w)
      /\ cq.rq.amount < 0
      /\ wk[w].out = Reject("Amount must be positive")
      /\ \E i \in 1 .. Len(ledger) :
           ledger[i].action = "BADGE" /\ ledger[i].amount = 0

\* the fields of a row that a request decides
RowIs(row, action, s, r, a, amt) ==
    /\ row.action = action
    /\ row.sender = s
    /\ row.receiver = r
    /\ row.asset = a
    /\ row.amount = amt

\* the balance of a wallet in the asset of the last request, before it and now
BalanceBefore(wal) == BalanceIn(cq.before.tokens, wal, cq.rq.asset)
BalanceNow(wal) == BalanceIn(tokens, wal, cq.rq.asset)

\* the last request was posted right after a refill of its sender, in its
\* asset, of at least its amount
FollowsRefill ==
    LET n == Len(cq.before.ledger)
    IN  /\ n > Len(OpeningState.ledger)
        /\ cq.before.ledger[n].action = "REFILL"
        /\ cq.before.ledger[n].receiver = cq.rq.sender
        /\ cq.before.ledger[n].asset = cq.rq.asset
        /\ cq.before.ledger[n].amount >= cq.rq.amount

\* C18 REFILL then SALE: a refill that succeeds records CREATION(sender ->
\* sender, a) and then REFILL(sender -> receiver, a), raises the receiver's
\* balance in the asset by a and leaves the sender's unchanged; a request
\* classified SALE that follows the refill of its sender, for an amount b not
\* above a, succeeds; and a sale that succeeds records SALE(sender ->
\* receiver, b), lowers the sender's balance by b and raises the receiver's
\* by b.
C18_RefillThenSale ==
    \A w \in Workers :
      Posted(w) =>
        LET rq == cq.rq
            n == Len(cq.before.ledger)
        IN  /\ wk[w].out = Ok("REFILL") =>
                 /\ Len(ledger) = n + 2
                 /\ SubSeq(ledger, 1, n) = cq.before.ledger
                 /\ RowIs(ledger[n + 1], "CREATION", rq.sender, rq.sender,
                          rq.asset, rq.amount)
                 /\ RowIs(ledger[n + 2], "REFILL", rq.sender, rq.receiver,
                          rq.asset, rq.amount)
                 /\ BalanceNow(rq.receiver) = BalanceBefore(rq.receiver) + rq.amount
                 /\ BalanceNow(rq.sender) = BalanceBefore(rq.sender)
            /\ (cq.res = Act("SALE") /\ FollowsRefill) => wk[w].out = Ok("SALE")
            /\ wk[w].out = Ok("SALE") =>
                 /\ Len(ledger) = n + 1
                 /\ SubSeq(ledger, 1, n) = cq.before.ledger
                 /\ RowIs(ledger[n + 1], "SALE", rq.sender, rq.receiver,
                          rq.asset, rq.amount)
                 /\ BalanceNow(rq.sender) = BalanceBefore(rq.sender) - rq.amount
                 /\ BalanceNow(rq.receiver) = BalanceBefore(rq.receiver) + rq.amount

\* the sale of the scenario: WU pays WP in LOCAL right after WP refilled WU
C18_Witness ==
    \E w \in Workers :
      /\ Posted(w)
      /\ wk[w].out = Ok("SALE")
      /\ FollowsRefill
      /\ cq.rq.sender = "WU" /\ cq.rq.receiver = "WP" /\ cq.rq.asset = "LOCAL"
      /\ cq.rq.primary_card = "C1" /\ cq.rq.user_card = "C2"
      /\ RowIs(cq.before.ledger[Len(cq.before.ledger)], "REFILL", "WP", "WU",
               "LOCAL", MaxAmount)
      /\ RowIs(cq.before.ledger[Len(cq.before.ledger) - 1], "CREATION", "WP", "WP",
               "LOCAL", MaxAmount)
      /\ cq.rq.amount < MaxAmount
      /\ BalanceNow("WU") = BalanceBefore("WU") - cq.rq.amount
      /\ BalanceNow("WP") = BalanceBefore("WP") + cq.rq.amount

\* a refund or a void has been carried out
Refunded(w) ==
    /\ wk[w].op = "refund"
    /\ wk[w].pc = "idle"
    /\ cq.res # NoResult
    /\ wk[w].out.kind = "ok"

\* the local assets a place issued
LocalAssetsOf(place) ==
    {a \in Assets : WalletOrigin(a) = PlaceWallet(place) /\ Category(a) \in {"TLF", "TNF"}}

\* the last request added to the ledger exactly one REFUND, from the card's
\* wallet to the place's wallet and of the full balance, for each asset of S
\* in which the wallet had a positive balance, and nothing else
SweptOver(S) ==
    LET n == Len(cq.before.ledger)
        wal == cq.rq.sender
    IN  /\ Len(ledger) >= n
        /\ SubSeq(ledger, 1, n) = cq.before.ledger
        /\ \A a \in Assets :
             LET had == BalanceIn(cq.before.tokens, wal, a)
                 idx == {i \in n + 1 .. Len(ledger) : ledger[i].asset = a}
             IN  IF a \in S /\ had > 0
                 THEN /\ Cardinality(idx) = 1
                      /\ \A i \in idx :
                           RowIs(ledger[i], "REFUND", wal, PlaceWallet(cq.rq.place),
                                 a, had)
                 ELSE idx = {}

\* C19 as stated: the sweep covers every asset the place accepts in which the
\* card's wallet has a positive balance.
C19_AcceptedAssetsSwept ==
    \A w \in Workers : Refunded(w) => SweptOver(AcceptedAssets(cq.rq.place))

\* C19 REFUND sweep: a refund or void request with a primary card of the place
\* and a user card records exactly one REFUND, from the card's wallet to the
\* place's wallet and of the full balance, for every local asset issued by the
\* place in which the card's wallet has a positive balance, and no transaction
\* for a zero balance or for any other asset, accepted by the place or not.
C19_LocalAssetsSwept ==
    \A w \in Workers : Refunded(w) => SweptOver(LocalAssetsOf(cq.rq.place))

\* the card C3 has been refunded: its LOCAL went back to the place, its EXT,
\* which the place accepts, stayed
C19_Witness ==
    \E w \in Workers :
      /\ Refunded(w)
      /\ cq.rq.user_card = "C3"
      /\ BalanceIn(cq.before.tokens, "WE", "LOCAL") > 0
      /\ BalanceIn(cq.before.tokens, "WE", "EXT") > 0
      /\ "EXT" \in AcceptedAssets(cq.rq.place)
      /\ Len(ledger) = Len(cq.before.ledger) + 1
      /\ Balance("WE", "LOCAL") = 0
      /\ Balance("WE", "EXT") = BalanceIn(cq.before.tokens, "WE", "EXT")
      /\ Balance("WP", "LOCAL") =
           BalanceIn(cq.before.tokens, "WP", "LOCAL")
             + BalanceIn(cq.before.tokens, "WE", "LOCAL")

\* a refund or a void has been answered
RefundAnswered(w) ==
    /\ wk[w].op = "refund"
    /\ wk[w].pc = "idle"
    /\ cq.res # NoResult

\* the messages of a primary card that is missing or not of the place, and of
\* a missing user card
RefundCardErrors ==
    {Reject("Primary card must be in place primary cards"),
     Reject("User card is required for void or refund")}

\* C20 VOID detaches the card: a void that succeeds makes the sweep of a
\* refund and leaves the card with no user and no ephemeral wallet, the other
\* cards as they were; a refund that succeeds leaves every card's user and
\* ephemeral wallet as they were; a request rejected for its primary card or
\* for its missing user card leaves the whole store as it was.
C20_VoidDetaches ==
    \A w \in Workers :
      RefundAnswered(w) =>
        LET c == cq.rq.user_card
        IN  /\ wk[w].out = Ok("VOID") =>
                 /\ SweptOver(LocalAssetsOf(cq.rq.place))
                 /\ cardUser = [cq.before.cardUser EXCEPT ![c] = NoUser]
                 /\ cardEph = [cq.before.cardEph EXCEPT ![c] = NoWallet]
            /\ wk[w].out = Ok("REFUND") =>
                 /\ cardUser = cq.before.cardUser
                 /\ cardEph = cq.before.cardEph
            /\ wk[w].out \in RefundCardErrors => Store = cq.before

\* a card that had a user or an ephemeral wallet, and money of the place, has
\* been voided
C20_Witness ==
    \E w \in Workers :
      /\ RefundAnswered(w)
      /\ wk[w].out = Ok("VOID")
      /\ \/ cq.before.cardUser[cq.rq.user_card] # NoUser
         \/ cq.before.cardEph[cq.rq.user_card] # NoWallet
      /\ Len(ledger) > Len(cq.before.ledger)
      /\ cardUser[cq.rq.user_card] = NoUser
      /\ cardEph[cq.rq.user_card] = NoWallet

(***************************************************************************)
(* The claims about the links of wallets, cards and users.                 *)
(***************************************************************************)
\* the kinds of owner a wallet has: a user, a place, a card (as its ephemeral
\* wallet)
OwnerKinds(wal) ==
    {k \in {"user", "place", "card"} :
       \/ k = "user" /\ \E u \in Users : userWallet[u] = wal
       \/ k = "place" /\ \E p \in Places : PlaceWallet(p) = wal
       \/ k = "card" /\ \E c \in Cards : cardEph[c] = wal}

OwnershipExclusive ==
    /\ \A wal \in Wallets : Cardinality(OwnerKinds(wal)) <= 1
    /\ \A c \in Cards : ~(cardUser[c] # NoUser /\ cardEph[c] # NoWallet)

\* no step makes a wallet the ephemeral wallet of a card that was not one
OwnershipOneWay ==
    \A wal \in Wallets :
      (\E c \in Cards : cardEph'[c] = wal) => (\E c \in Cards : cardEph[c] = wal)

IsValidSignature ==
    /\ cq.rq.public_key.kind = "pem"
    /\ cq.rq.signature = SignMessage(cq.rq.message, cq.rq.public_key.place)

\* C22 Signature verification has a single failure outcome: verify_signature
\* returns true when the signature is the valid signature of the message
\* under the public key, and returns false, without raising, on every other
\* input.
C22_SingleFailureOutcome ==
    cq.got # NoResult => cq.got = Returned(IsValidSignature)

\* the last request of the gate has been dealt with by worker w
Gated(w) ==
    /\ wk[w].op \in {"auth", "submit"}
    /\ cq.res = GateMark

\* the request carries the key of a place and the signature that place makes
\* of the encoded body
Authentic ==
    /\ cq.rq.key \in {"kP", "kP2"}
    /\ cq.rq.signature # NoSignature
    /\ cq.rq.signature =
         [enc |-> "b64", key |-> KeyPlace(cq.rq.key),
          msg |-> [b64 |-> [json |-> cq.rq.body]]]

\* C23 Authentication gates the ledger: the permission is granted only to a
\* request that carries a registered key and the signature of its encoded
\* body by the place of that key; a request without a key, without a
\* signature or with a signature that does not verify is not granted the
\* permission (has_permission answers False or fails), the serializer of the
\* engine does not run for it, and the store is left as it was.
C23_AuthenticationGates ==
    \A w \in Workers :
      Gated(w) =>
        /\ cq.got = Returned(TRUE) => Authentic
        /\ wk[w].op = "submit" => cq.got = Returned(TRUE)
        /\ ~Authentic =>
             /\ cq.got # Returned(TRUE)
             /\ wk[w].op = "auth"
             /\ wk[w].out.kind \in {"reject", "error"}
             /\ Store = cq.before

\* a request signed by another place than the one of its key has been
\* refused, after an authentic request was served
C23_Witness ==
    \E w \in Workers :
      /\ Gated(w)
      /\ cq.rq.key = "kP"
      /\ cq.rq.signature = SignMessage(DictToB64(cq.rq.body), "P2")
      /\ cq.got = Returned(FALSE)
      /\ wk[w].out = Reject("Forbidden")
      /\ Store = cq.before
      /\ Len(ledger) > Len(OpeningState.ledger)

(***************************************************************************)
(* More claims about the engine.                                           *)
(***************************************************************************)
\* C24 One token per (wallet, asset): in every state reached by submits,
\* however interleaved, each (wallet, asset) pair has at most one Token row,
\* and no submit fails on the read of the receiver's token.
C24_OneTokenPerPair ==
    /\ \A x \in Wallets, b \in Assets : Len(tokens[x][b]) <= 1
    /\ \A w \in Workers : wk[w].out # Crash("MultipleObjectsReturned")

\* worker w is in the middle of a refill it was posted at the desk
Refilling(w) ==
    /\ wk[w].op = "submit"
    /\ wk[w].action = "REFILL"
    /\ wk[w].pc \in {"create_recv", "mint", "record"}
    /\ cq.res # NoResult

\* the rows the last request has added to the ledger
NewRows == SubSeq(ledger, Len(cq.before.ledger) + 1, Len(ledger))

\* C25 as stated: within a refill the CREATION is recorded before the
\* preconditions of the REFILL are evaluated, so it is in the ledger when the
\* receiver's token is found missing and created.
C25_CreationBeforePreconditions ==
    \A w \in Workers :
      (Refilling(w) /\ wk[w].pc = "create_recv") =>
        /\ Len(NewRows) = 1
        /\ NewRows[1].action = "CREATION"

\* C25 REFILL is an ordered pair: within a refill the sender's token is read
\* and the receiver's token is read or created first, with nothing recorded
\* yet; then the CREATION is recorded, then the REFILL; and every REFILL of
\* the ledger comes right after a CREATION of the same wallet, asset and
\* amount whose hash verifies.
C25_ChecksCreationRefill ==
    /\ \A w \in Workers :
         Refilling(w) =>
           /\ wk[w].pc \in {"create_recv", "mint"} => NewRows = <<>>
           /\ wk[w].pc \in {"mint", "record"} =>
                /\ tokens[wk[w].sender][wk[w].asset] # <<>>
                /\ tokens[wk[w].receiver][wk[w].asset] # <<>>
           /\ wk[w].pc = "record" =>
                /\ Len(NewRows) = 1
                /\ RowIs(NewRows[1], "CREATION", wk[w].sender, wk[w].sender,
                         wk[w].asset, wk[w].amount)
    /\ \A i \in 1 .. Len(ledger) :
         ledger[i].action = "REFILL" =>
           /\ i > 1
           /\ RowIs(ledger[i - 1], "CREATION", ledger[i].sender, ledger[i].sender,
                    ledger[i].asset, ledger[i].amount)
           /\ VerifyHash(ledger, ledger[i - 1])

\* a refill whose receiver had no token of the asset: the token has been
\* created and the CREATION is not recorded yet
C25_Witness ==
    \E w \in Workers :
      /\ Refilling(w)
      /\ wk[w].pc = "mint"
      /\ cq.before.tokens[wk[w].receiver][wk[w].asset] = <<>>
      /\ tokens[wk[w].receiver][wk[w].asset] = <<0>>
      /\ NewRows = <<>>

\* C26 Sender token is required for every action: a posted request that the
\* classifier and the check of the parties let through, whatever its action,
\* is rejected with 'Sender token does not exist' when the sender has no token
\* of the asset, with nothing recorded (no CREATION for a refill) and nothing
\* changed.
C26_SenderTokenRequired ==
    \A w \in Workers :
      (Posted(w) /\ cq.res.kind = "action" /\ SenderRows = <<>>) =>
        /\ wk[w].out = Reject("Sender token does not exist")
        /\ Store = cq.before

\* the place P2, which has no token of its asset FOREIGN yet, has asked for
\* its first refill of FOREIGN and was refused
C26_Witness ==
    \E w \in Workers :
      /\ Posted(w)
      /\ cq.rq.place = "P2" /\ cq.rq.sender = "WP2" /\ cq.rq.asset = "FOREIGN"
      /\ WalletOrigin("FOREIGN") = "WP2"
      /\ cq.res = Act("REFILL")
      /\ SenderRows = <<>>
      /\ wk[w].out = Reject("Sender token does not exist")
      /\ ledger = cq.before.ledger

(***************************************************************************)
(* More claims about the classifier.                                       *)
(***************************************************************************)
\* C27 Local REFILL depends only on card presence: when the sender is the
\* requesting place's wallet, the receiver is another wallet and the asset is
\* neither a subscription nor a badge, a request that carries a primary card
\* and a user card is classified REFILL and passes the check of the parties,
\* whether or not the primary card is one of the place's and whether or not
\* the place issued or accepts the asset.
C27_RefillOnCardPresence ==
    (/\ IsClassified
     /\ cq.rq.sender = PlaceWallet(cq.rq.place)
     /\ cq.rq.receiver # cq.rq.sender
     /\ Category(cq.rq.asset) \notin {"SUBSCRIPTION", "BADGE"}
     /\ cq.rq.primary_card # NoCard
     /\ cq.rq.user_card # NoCard) =>
      /\ cq.got = Act("REFILL")
      /\ cq.res = Act("REFILL")

\* the place P, with the primary card of another place and a user card that
\* another place issued, has been classified REFILL for an asset it neither
\* issued nor accepts
C27_Witness ==
    /\ IsClassified
    /\ cq.rq.place = "P" /\ cq.rq.sender = "WP" /\ cq.rq.receiver = "WU"
    /\ cq.rq.primary_card = "C5" /\ "C5" \notin PrimaryCards("P")
    /\ cq.rq.user_card = "C4"
    /\ cq.rq.asset = "FOREIGN"
    /\ WalletOrigin("FOREIGN") # "WP" /\ "FOREIGN" \notin AcceptedAssets("P")
    /\ cq.res = Act("REFILL")

\* the actions the classifier can answer
SubmitActions == {"REFILL", "SUBSCRIBE", "BADGE", "SALE", "FUSION"}

\* the hints that name no rule of the classifier
IdleHints == {"CREATION", "TRANSFER", "REFUND", "VOID"}

\* C28 Actions reachable through submit: every transaction a posted request
\* records has an action among REFILL, SUBSCRIBE, BADGE, SALE and FUSION, or
\* is the CREATION of a request classified REFILL, so none is a TRANSFER, a
\* REFUND or a VOID; and a request posted with the hint CREATION, TRANSFER,
\* REFUND or VOID is classified, and answered, as the same request posted
\* with no hint.
C28_SubmitActions ==
    \A w \in Workers :
      (wk[w].op = "submit" /\ cq.res # NoResult) =>
        /\ \A i \in 1 .. Len(NewRows) :
             \/ NewRows[i].action \in SubmitActions
             \/ NewRows[i].action = "CREATION" /\ cq.res = Act("REFILL")
        /\ \A h \in IdleHints :
             /\ PreValidate([cq.rq EXCEPT !.action = h])
                  = PreValidate([cq.rq EXCEPT !.action = "NONE"])
             /\ PreValidate([cq.rq EXCEPT !.action = h]) # Act(h)
        /\ cq.rq.action \in IdleHints =>
             /\ cq.res = PreValidate([cq.rq EXCEPT !.action = "NONE"])
             /\ wk[w].out # Ok(cq.rq.action)

\* a request posted with the hint TRANSFER has been recorded as a SALE
C28_Witness ==
    \E w \in Workers :
      /\ Posted(w)
      /\ cq.rq.action = "TRANSFER"
      /\ wk[w].out = Ok("SALE")
      /\ Len(NewRows) = 1
      /\ NewRows[1].action = "SALE"

(***************************************************************************)
(* More claims about the links.                                            *)
(***************************************************************************)
\* a wallet-create request has been answered
LinkAnswered(w) ==
    wk[w].op = "wallet_create" /\ wk[w].pc = "idle" /\ cq.res = LinkMark

\* C29 Wallet-create case analysis: a request whose email is the one of an
\* existing user and that carries no card is rejected with "User not found ?";
\* a request whose card is already the card of that user is accepted; a
\* request whose card is the card of another user, whether its email is new
\* or not, is rejected with "Card already linked to another user"; and none
\* of the three changes the store.
C29_WalletCreateCases ==
    \A w \in Workers :
      LinkAnswered(w) =>
        LET u == cq.rq.email
            c == cq.rq.card
            b == cq.before
        IN  /\ (c = NoCard /\ b.userWallet[u] # NoWallet) =>
                 wk[w].out = Reject("User not found ?") /\ Store = b
            /\ (c # NoCard /\ b.userWallet[u] # NoWallet /\ b.cardUser[c] = u) =>
                 wk[w].out = Ok("wallet") /\ Store = b
            /\ (c # NoCard /\ b.cardUser[c] \notin {NoUser, u}) =>
                 /\ wk[w].out = Reject("Card already linked to another user")
                 /\ Store = b

\* a link that succeeded before is asked for again
C29_Witness ==
    \E w \in Workers :
      /\ LinkAnswered(w)
      /\ cq.rq.card = "C4"
      /\ cq.before.cardUser["C4"] = cq.rq.email
      /\ wk[w].out = Ok("wallet")
      /\ Store = cq.before

\* the two rejections of the case analysis
C29_RejectedNoCard ==
    \E w \in Workers :
      /\ LinkAnswered(w)
      /\ cq.rq.card = NoCard
      /\ wk[w].out = Reject("User not found ?")

C29_RejectedOtherUser ==
    \E w \in Workers :
      /\ LinkAnswered(w)
      /\ cq.rq.card # NoCard
      /\ cq.before.userWallet[cq.rq.email] # NoWallet
      /\ cq.before.cardUser[cq.rq.card] \notin {NoUser, cq.rq.email}
      /\ wk[w].out = Reject("Card already linked to another user")

\* C30 The check of the parties never rejects: whenever the classifier
\* answers an action, the wallet of the place is the sender or the receiver,
\* or the asset is the externally-backed one, or the action is FUSION, and
\* the request leaves the check with that action.
C30_PartyCheckNeverRejects ==
    (cq.res # NoResult /\ cq.got # NoResult /\ cq.got.kind = "action") =>
      /\ \/ PlaceWallet(SelfPlace(cq.rq)) = cq.rq.sender
         \/ PlaceWallet(SelfPlace(cq.rq)) = cq.rq.receiver
         \/ IsStripePrimary(cq.rq.asset)
         \/ cq.got.value = "FUSION"
      /\ cq.res = cq.got

\* a fusion between two wallets that are not the place's, in a local asset,
\* has passed the check
C30_Witness ==
    /\ cq.res = Act("FUSION")
    /\ cq.got = Act("FUSION")
    /\ cq.rq.place # NoPlace
    /\ PlaceWallet(cq.rq.place) \notin {cq.rq.sender, cq.rq.receiver}
    /\ ~IsStripePrimary(cq.rq.asset)

=============================================================================
